---- MODULE Spec2Model ----
(***************************************************************************)
(* A model of the BeeSV wallet core (zskamljic/beesv, crate `wallet`):     *)
(* the transaction codec and signing engine (sending.rs), the gap-limit    *)
(* wallet scanner (transactions.rs), the coin selector (active.rs), the    *)
(* rate limiter (ratelimit.rs), extended keys and derivation paths         *)
(* (bip32.rs), addresses (util.rs) and the loading of the stored key       *)
(* (lib.rs).                                                               *)
(*                                                                         *)
(* Numbers.  TLC's integers are 32 bits wide, the program's are u32 and    *)
(* u64.  A u64 is therefore written as its eight base-256 digits, most     *)
(* significant first (0xABCD is <<0,0,0,0,0,0,171,205>>), a u32 as its     *)
(* four digits; to_le_bytes / from_le_bytes reverse the digits.  Small     *)
(* quantities (lengths, counts, satoshi amounts of the coin selector) are  *)
(* naturals and are converted digit by digit where the program casts them. *)
(***************************************************************************)
EXTENDS Integers, Sequences, FiniteSets, TLC

VARIABLES
    \* ---- compact-size codec (read_var_int / encode_compact_size)
    vi_n,        \* the u64 handed to encode_compact_size
    vi_tail,     \* the bytes that follow the varint in the buffer
    vi_form,     \* "canonical": emitted by encode_compact_size; "overlong": from the wire
    vi_buf,      \* the Vec<u8> read_var_int works on
    vi_res,      \* what read_var_int returned, and what it left in the buffer
    vi_pc,       \* "start" | "encoded" | "decoded"
    \* ---- transaction engine (sending.rs)
    tx,              \* the Transaction being built: version, inputs, outputs, locktime
    prev_outputs,    \* HashMap<(tx_hash, index), Output> handed to sign_inputs / verify
    address_keys,    \* HashMap<[u8; 20], (SecretKey, PublicKey)> handed to sign_inputs
    tx_op,           \* the last operation on tx and what it returned
    \* ---- rate limiter (ratelimit.rs)
    rl,              \* the RateLimiter: capacity, tokens, last_update (ms)
    now,             \* performance.now(), in ms
    rl_pc,           \* "idle" | "sleeping": where the caller of take() is
    rl_wake,         \* when the pending TimeoutFuture may fire (ms)
    rl_last,         \* the tokens the last completed take() found and left
    \* ---- wallet scanner (transactions.rs, active.rs)
    oracle,          \* the ledger: per chain, the indices of the addresses with history
    syncing,         \* the `syncing` flag of Fullscreen
    wallet,          \* the published WalletState
    scan,            \* the scan task in flight: its position and its locals
    \* ---- coin selector (active.rs: SendToAddress)
    send_props,      \* the props: outputs, change_address, key_fetcher
    send_form,       \* the `address` and `amount` states of the form
    sent,            \* what the click handler run in the last step did
    \* ---- key, address and path codecs (bip32.rs, util.rs)
    kc_subject,      \* what the operation is applied to: a key, a hash, a string, a path
    kc_result,       \* the last operation and what it returned
    \* ---- calls of hash_original and of Transaction::try_from (sending.rs)
    pb_tx,           \* the transaction the call is made on
    pb_res           \* the last call, its arguments and what it returned

vi_vars == <<vi_n, vi_tail, vi_form, vi_buf, vi_res, vi_pc>>

tx_vars == <<tx, prev_outputs, address_keys, tx_op>>

rl_vars == <<rl, now, rl_pc, rl_wake, rl_last>>

sc_vars == <<oracle, syncing, wallet, scan>>

sd_vars == <<send_props, send_form, sent>>

kc_vars == <<kc_subject, kc_result>>

pb_vars == <<pb_tx, pb_res>>

vars == <<vi_vars, tx_vars, rl_vars, sc_vars, sd_vars, kc_vars, pb_vars>>

\* What an action of one part leaves alone: the variables of the other parts.
NotVarint == <<tx_vars, rl_vars, sc_vars, sd_vars, kc_vars, pb_vars>>

NotTx == <<vi_vars, rl_vars, sc_vars, sd_vars, kc_vars, pb_vars>>

NotRate == <<vi_vars, tx_vars, sc_vars, sd_vars, kc_vars, pb_vars>>

NotScan == <<vi_vars, tx_vars, rl_vars, sd_vars, kc_vars, pb_vars>>

NotSend == <<vi_vars, tx_vars, rl_vars, sc_vars, kc_vars, pb_vars>>

NotCodec == <<vi_vars, tx_vars, rl_vars, sc_vars, sd_vars, pb_vars>>

NotProbe == <<vi_vars, tx_vars, rl_vars, sc_vars, sd_vars, kc_vars>>

(***************************************************************************)
(* Byte sequences                                                          *)
(***************************************************************************)
Byte == 0..255

Reverse(s) == [i \in 1..Len(s) |-> s[Len(s) + 1 - i]]

\* v.drain(0..n) leaves the bytes after the first n; Prefix is what it yields.
Drain(s, n) == SubSeq(s, n + 1, Len(s))

Prefix(s, n) == SubSeq(s, 1, n)

Zeros(n) == [i \in 1..n |-> 0]

\* The base-256 digits of a natural below 2^31, as a u64 and as a u32.
U32FromNat(n) ==
    <<(n \div 16777216) % 256, (n \div 65536) % 256, (n \div 256) % 256, n % 256>>

U64FromNat(n) == Zeros(4) \o U32FromNat(n)

\* a <= b on digit sequences of one length (most significant digit first).
RECURSIVE DigitsLeq(_, _)
DigitsLeq(a, b) ==
    IF Len(a) = 0 THEN TRUE
    ELSE IF Head(a) # Head(b) THEN Head(a) < Head(b)
    ELSE DigitsLeq(Tail(a), Tail(b))

\* The value of a u64 as a natural, for the values that fit TLC's integers.
FitsNat(w) == \A i \in 1..(Len(w) - 4) : w[i] = 0

NatOf(w) ==
    LET n == Len(w) IN
    w[n] + 256 * w[n - 1] + 65536 * w[n - 2] + 16777216 * (w[n - 3] % 128)

FitsInt(w) == FitsNat(w) /\ w[Len(w) - 3] < 128

to_le_bytes(w) == Reverse(w)

\* uN::from_le_bytes(b) as u64
from_le_bytes_u64(b) == Zeros(8 - Len(b)) \o Reverse(b)

(***************************************************************************)
(* Compact-size varint                                                     *)
(***************************************************************************)
MAX_SINGLE == 252

U16_MAX_W == <<0, 0, 0, 0, 0, 0, 255, 255>>

U32_MAX_W == <<0, 0, 0, 0, 255, 255, 255, 255>>

\* A mutant of encode_compact_size: the single-byte form reaches one value too far.
encode_compact_size_off_by_one(input) ==
    IF DigitsLeq(input, U64FromNat(MAX_SINGLE + 1)) THEN <<input[8]>>
    ELSE IF DigitsLeq(input, U16_MAX_W) THEN <<253>> \o to_le_bytes(SubSeq(input, 7, 8))
    ELSE IF DigitsLeq(input, U32_MAX_W) THEN <<254>> \o to_le_bytes(SubSeq(input, 5, 8))
    ELSE <<255>> \o to_le_bytes(input)

encode_compact_size(input) ==
    IF DigitsLeq(input, U64FromNat(MAX_SINGLE)) THEN <<input[8]>>
    ELSE IF DigitsLeq(input, U16_MAX_W) THEN <<253>> \o to_le_bytes(SubSeq(input, 7, 8))
    ELSE IF DigitsLeq(input, U32_MAX_W) THEN <<254>> \o to_le_bytes(SubSeq(input, 5, 8))
    ELSE <<255>> \o to_le_bytes(input)

\* What a read leaves: the value and the rest of the buffer, or a panic
\* (Vec::remove on an empty vector, a slice past the end).
ReadOk(value, rest) == [st |-> "ok", value |-> value, rest |-> rest]

ReadPanic == [st |-> "panic", value |-> Zeros(8), rest |-> <<>>]

\* The body of one marker arm: `width` little-endian bytes follow the marker.
read_wide(rest, width) ==
    IF Len(rest) < width THEN ReadPanic
    ELSE ReadOk(from_le_bytes_u64(Prefix(rest, width)), Drain(rest, width))

read_var_int(input) ==
    IF Len(input) = 0 THEN ReadPanic
    ELSE LET first == Head(input)
             rest == Tail(input)
         IN  CASE first = 253 -> read_wide(rest, 2)
               [] first = 254 -> read_wide(rest, 4)
               [] first = 255 -> read_wide(rest, 8)
               [] OTHER -> ReadOk(U64FromNat(first), rest)

(***************************************************************************)
(* Hash primitives and keys                                                *)
(*                                                                         *)
(* SHA-256 and RIPEMD-160 are stood for by a deterministic digest of the   *)
(* same output length that depends on every input byte and on its position *)
(* and never yields a zero byte.  A key pair is a key number; the public   *)
(* key is its 33-byte compressed form.  An ECDSA signature binds the key   *)
(* and the 32-byte message: it verifies under a public key exactly when it *)
(* was made with that key's secret over that message.                      *)
(***************************************************************************)
\* The sum over positions lo..hi of the bytes, each weighted by its position.
RECURSIVE WeightedSum(_, _, _, _, _)
WeightedSum(data, lo, hi, step, modulus) ==
    IF lo > hi THEN 0
    ELSE IF lo = hi THEN ((data[lo] + 1) * (((lo * step) % 251) + 1)) % modulus
    ELSE LET mid == (lo + hi) \div 2 IN
         (WeightedSum(data, lo, mid, step, modulus)
          + WeightedSum(data, mid + 1, hi, step, modulus)) % modulus

Digest(data, n) ==
    LET a == WeightedSum(data, 1, Len(data), 7, 32749)
        b == WeightedSum(data, 1, Len(data), 13, 32719)
    IN  [i \in 1..n |-> ((a * i + b + i * i + Len(data)) % 255) + 1]

sha256(data) == Digest(data, 32)

double_sha256(data) == sha256(sha256(data))

ripemd160(data) == Digest(<<160>> \o data, 20)

\* The number of key pairs of the model.
NumKeys == 2

Keys == 1..NumKeys

\* PublicKey::serialize(): the 33-byte compressed point of key k.
PublicKeyBytes(k) == <<2 + (k % 2)>> \o [i \in 1..32 |-> (17 * k + i) % 256]

\* PublicKey::from_slice: the key whose compressed form the bytes are, 0 when none.
PublicKeyFromSlice(bytes) ==
    IF \E k \in Keys : PublicKeyBytes(k) = bytes
    THEN CHOOSE k \in Keys : PublicKeyBytes(k) = bytes
    ELSE 0

\* The 20-byte hash an address of key k carries.
KeyHash(k) == ripemd160(sha256(PublicKeyBytes(k)))

DER_TAG == 48

\* sk.sign_ecdsa(message).serialize_der()
SignDer(k, message) == <<DER_TAG, k>> \o message

\* Signature::from_der
IsDer(bytes) == Len(bytes) = 34 /\ bytes[1] = DER_TAG

\* signature.verify(&message, &pub_key)
SignatureVerifies(der, message, k) == der = SignDer(k, message)

(***************************************************************************)
(* Input, Output, Transaction and their serialization                      *)
(***************************************************************************)
U32_MAX == <<255, 255, 255, 255>>

\* Input::new_decoded
Input_new_decoded(tx_hash, index) ==
    [tx_hash |-> tx_hash, index |-> index, script_sig |-> <<>>, sequence |-> U32_MAX]

OP_DUP == 118
OP_HASH160 == 169
PUSH_20 == 20
OP_EQUALVERIFY == 136
OP_CHECKSIG == 172

\* Output::new_from_decoded
Output_new_from_decoded(amount, address) ==
    [amount |-> amount,
     script |-> <<OP_DUP, OP_HASH160, PUSH_20>> \o address \o <<OP_EQUALVERIFY, OP_CHECKSIG>>]

\* Output::address: the 20-byte hash of a canonical P2PKH script, <<>> for InvalidScript.
Output_address(output) ==
    LET s == output.script IN
    IF \/ Len(s) # 25
       \/ s[1] # OP_DUP \/ s[2] # OP_HASH160 \/ s[3] # PUSH_20
       \/ s[24] # OP_EQUALVERIFY \/ s[25] # OP_CHECKSIG
    THEN <<>>
    ELSE SubSeq(s, 4, 23)

\* impl From<&Input> for Vec<u8>
InputBytes(input) ==
    Reverse(input.tx_hash)
    \o to_le_bytes(input.index)
    \o encode_compact_size(U64FromNat(Len(input.script_sig)))
    \o input.script_sig
    \o to_le_bytes(input.sequence)

\* impl From<&Output> for Vec<u8>
OutputBytes(output) ==
    to_le_bytes(output.amount)
    \o encode_compact_size(U64FromNat(Len(output.script)))
    \o output.script

RECURSIVE FlatInputs(_)
FlatInputs(inputs) ==
    IF Len(inputs) = 0 THEN <<>> ELSE InputBytes(Head(inputs)) \o FlatInputs(Tail(inputs))

RECURSIVE FlatOutputs(_)
FlatOutputs(outputs) ==
    IF Len(outputs) = 0 THEN <<>> ELSE OutputBytes(Head(outputs)) \o FlatOutputs(Tail(outputs))

\* impl From<&Transaction> for Vec<u8>
TransactionBytes(t) ==
    to_le_bytes(t.version)
    \o encode_compact_size(U64FromNat(Len(t.inputs)))
    \o FlatInputs(t.inputs)
    \o encode_compact_size(U64FromNat(Len(t.outputs)))
    \o FlatOutputs(t.outputs)
    \o to_le_bytes(t.locktime)

\* impl Default for Transaction
Transaction_default ==
    [version |-> U32FromNat(1), inputs |-> <<>>, outputs |-> <<>>, locktime |-> U32FromNat(0)]

\* Transaction::suggested_fee, in satoshis
suggested_fee(t) == Len(TransactionBytes(t)) + 34 + Len(t.inputs) * 107

(***************************************************************************)
(* Deserialization: impl TryFrom<Vec<u8>> for Transaction                  *)
(***************************************************************************)
\* A count read from the wire drives a loop whose every round drains at least one
\* byte and panics when the buffer runs out: a count above the bytes left is as
\* good as one more round than there are bytes.
Rounds(count, buf) ==
    IF FitsInt(count) /\ NatOf(count) <= Len(buf) THEN NatOf(count) ELSE Len(buf) + 1

\* `as usize` on the wasm32 target keeps the low 32 bits.
as_usize(w) == SubSeq(w, 5, 8)

\* Vec::drain(0..n) for a length read from the wire; panics past the end.
CanDrain(buf, n) == FitsInt(n) /\ NatOf(n) <= Len(buf)

ParsePanic == [st |-> "panic", items |-> <<>>, rest |-> <<>>]

RECURSIVE ReadInputs(_, _, _)
ReadInputs(buf, rounds, acc) ==
    IF rounds = 0 THEN [st |-> "ok", items |-> acc, rest |-> buf]
    ELSE IF Len(buf) < 36 THEN ParsePanic
    ELSE LET tx_hash == Reverse(Prefix(buf, 32))
             index == Reverse(SubSeq(buf, 33, 36))
             len == read_var_int(Drain(buf, 36))
         IN  IF len.st # "ok" THEN ParsePanic
             ELSE IF ~CanDrain(len.rest, as_usize(len.value)) THEN ParsePanic
             ELSE LET n == NatOf(as_usize(len.value))
                      script_sig == Prefix(len.rest, n)
                      after == Drain(len.rest, n)
                  IN  IF Len(after) < 4 THEN ParsePanic
                      ELSE ReadInputs(Drain(after, 4), rounds - 1,
                               Append(acc, [tx_hash |-> tx_hash, index |-> index,
                                            script_sig |-> script_sig,
                                            sequence |-> Reverse(Prefix(after, 4))]))

RECURSIVE ReadOutputs(_, _, _)
ReadOutputs(buf, rounds, acc) ==
    IF rounds = 0 THEN [st |-> "ok", items |-> acc, rest |-> buf]
    ELSE IF Len(buf) < 8 THEN ParsePanic
    ELSE LET amount == Reverse(Prefix(buf, 8))
             len == read_var_int(Drain(buf, 8))
         IN  IF len.st # "ok" THEN ParsePanic
             ELSE IF ~CanDrain(len.rest, as_usize(len.value)) THEN ParsePanic
             ELSE LET n == NatOf(as_usize(len.value))
                  IN  ReadOutputs(Drain(len.rest, n), rounds - 1,
                          Append(acc, [amount |-> amount, script |-> Prefix(len.rest, n)]))

\* The three ways try_from ends: Ok(transaction), Err(LeftoverData(bytes)), a panic.
Parsed(t) == [st |-> "ok", tx |-> t, leftover |-> <<>>]

\* A LeftoverData that carries no bytes.
ParseLeftover_empty(bytes) ==
    [st |-> "LeftoverData", tx |-> Transaction_default, leftover |-> <<>>]

ParseLeftover(bytes) == [st |-> "LeftoverData", tx |-> Transaction_default, leftover |-> bytes]

ParseAbort == [st |-> "panic", tx |-> Transaction_default, leftover |-> <<>>]

Transaction_try_from(value) ==
    IF Len(value) < 4 THEN ParseAbort
    ELSE LET version == Reverse(Prefix(value, 4))
             input_count == read_var_int(Drain(value, 4))
         IN
         IF input_count.st # "ok" THEN ParseAbort
         ELSE LET ins == ReadInputs(input_count.rest,
                                    Rounds(input_count.value, input_count.rest), <<>>)
              IN
              IF ins.st # "ok" THEN ParseAbort
              ELSE LET output_count == read_var_int(ins.rest) IN
                   IF output_count.st # "ok" THEN ParseAbort
                   ELSE LET outs == ReadOutputs(output_count.rest,
                                        Rounds(output_count.value, output_count.rest), <<>>)
                        IN
                        IF outs.st # "ok" THEN ParseAbort
                        ELSE IF Len(outs.rest) < 4 THEN ParseAbort
                        ELSE IF Len(outs.rest) > 4 THEN ParseLeftover(Drain(outs.rest, 4))
                        ELSE Parsed([version |-> version, inputs |-> ins.items,
                                     outputs |-> outs.items,
                                     locktime |-> Reverse(Prefix(outs.rest, 4))])

(***************************************************************************)
(* SIGHASH flags                                                           *)
(***************************************************************************)
\* The low byte of the 32-bit flag word holds every bit the program tests.
SigHashLow(sig_hash) == sig_hash[4]

\* SigHash::base: value & 0x1F, and BaseSigHash's comparisons with it.
SigHash_base(sig_hash) == SigHashLow(sig_hash) % 32

Base_has_none(sig_hash) == SigHash_base(sig_hash) = 2

Base_has_single(sig_hash) == SigHash_base(sig_hash) = 3

SigHash_has_fork_id(sig_hash) == (SigHashLow(sig_hash) \div 64) % 2 = 1

SigHash_has_anyone_can_pay(sig_hash) == (SigHashLow(sig_hash) \div 128) % 2 = 1

SIGHASH_DEFAULT == 65

SigHash_default == U32FromNat(SIGHASH_DEFAULT)

(***************************************************************************)
(* Signature preimages.  Input indices are 0-based, as in the program.     *)
(***************************************************************************)
HashOk(h) == [st |-> "ok", hash |-> h]

HashErr(kind) == [st |-> kind, hash |-> <<>>]

OP_CODESEPARATOR == 171

U64_MAX == <<255, 255, 255, 255, 255, 255, 255, 255>>

\* A has_invalid_flag that compares the index with the outputs under every base.
has_invalid_flag_any_base(t, index, sig_hash) ==
    index >= Len(t.inputs) \/ index >= Len(t.outputs)

\* Transaction::has_invalid_flag
has_invalid_flag(t, index, sig_hash) ==
    index >= Len(t.inputs) \/ (Base_has_single(sig_hash) /\ index >= Len(t.outputs))

\* The clone hash_original serializes (index in bounds).
\* A clone that keeps the sequence numbers of the other inputs under every base.
LegacyClone_keep_sequences(t, index, script, sig_hash) ==
    LET cleared == [i \in 1..Len(t.inputs) |->
                      IF i = index + 1
                      THEN [t.inputs[i] EXCEPT
                              !.script_sig = SelectSeq(script, LAMBDA c : c # OP_CODESEPARATOR)]
                      ELSE [t.inputs[i] EXCEPT !.script_sig = <<>>]]
        inputs == IF SigHash_has_anyone_can_pay(sig_hash) THEN <<cleared[index + 1]>> ELSE cleared
        outputs == IF Base_has_none(sig_hash) THEN <<>>
                   ELSE IF Base_has_single(sig_hash)
                   THEN [i \in 1..(index + 1) |->
                           IF i = index + 1 THEN t.outputs[i]
                           ELSE [amount |-> U64_MAX, script |-> <<>>]]
                   ELSE t.outputs
    IN  [t EXCEPT !.inputs = inputs, !.outputs = outputs]

LegacyClone(t, index, script, sig_hash) ==
    LET cleared == [i \in 1..Len(t.inputs) |->
                      IF i = index + 1
                      THEN [t.inputs[i] EXCEPT
                              !.script_sig = SelectSeq(script, LAMBDA c : c # OP_CODESEPARATOR)]
                      ELSE [t.inputs[i] EXCEPT
                              !.script_sig = <<>>,
                              !.sequence = IF Base_has_single(sig_hash) \/ Base_has_none(sig_hash)
                                           THEN U32FromNat(0) ELSE @]]
        inputs == IF SigHash_has_anyone_can_pay(sig_hash) THEN <<cleared[index + 1]>> ELSE cleared
        outputs == IF Base_has_none(sig_hash) THEN <<>>
                   ELSE IF Base_has_single(sig_hash)
                   THEN [i \in 1..(index + 1) |->
                           IF i = index + 1 THEN t.outputs[i]
                           ELSE [amount |-> U64_MAX, script |-> <<>>]]
                   ELSE t.outputs
    IN  [t EXCEPT !.inputs = inputs, !.outputs = outputs]

\* Transaction::hash_original
hash_original(t, index, script, sig_hash) ==
    IF has_invalid_flag(t, index, sig_hash) THEN HashErr("InputOutOfBounds")
    ELSE HashOk(double_sha256(TransactionBytes(LegacyClone(t, index, script, sig_hash))
                              \o to_le_bytes(sig_hash)))

RECURSIVE FlatPrevouts(_)
FlatPrevouts(inputs) ==
    IF Len(inputs) = 0 THEN <<>>
    ELSE Reverse(Head(inputs).tx_hash) \o to_le_bytes(Head(inputs).index)
         \o FlatPrevouts(Tail(inputs))

RECURSIVE FlatSequences(_)
FlatSequences(inputs) ==
    IF Len(inputs) = 0 THEN <<>>
    ELSE to_le_bytes(Head(inputs).sequence) \o FlatSequences(Tail(inputs))

\* The three hashes of the FORKID preimage.
ForkPrevoutsHash(t, sig_hash) ==
    IF SigHash_has_anyone_can_pay(sig_hash) THEN Zeros(32)
    ELSE double_sha256(FlatPrevouts(t.inputs))

\* A sequence hash that is zeroed under ANYONECANPAY alone.
ForkSequenceHash_acp_only(t, sig_hash) ==
    IF SigHash_has_anyone_can_pay(sig_hash) THEN Zeros(32)
    ELSE double_sha256(FlatSequences(t.inputs))

ForkSequenceHash(t, sig_hash) ==
    IF \/ SigHash_has_anyone_can_pay(sig_hash)
       \/ Base_has_single(sig_hash)
       \/ Base_has_none(sig_hash)
    THEN Zeros(32)
    ELSE double_sha256(FlatSequences(t.inputs))

ForkOutputsHash(t, index, sig_hash) ==
    IF Base_has_single(sig_hash) /\ index < Len(t.outputs)
    THEN double_sha256(OutputBytes(t.outputs[index + 1]))
    ELSE IF ~Base_has_single(sig_hash) /\ ~Base_has_none(sig_hash)
    THEN double_sha256(FlatOutputs(t.outputs))
    ELSE Zeros(32)

\* The preimage hash_fork hashes (FORKID set, index in bounds).
ForkPreimage(t, index, script, sig_hash, amount) ==
    to_le_bytes(t.version)
    \o ForkPrevoutsHash(t, sig_hash)
    \o ForkSequenceHash(t, sig_hash)
    \o Reverse(t.inputs[index + 1].tx_hash)
    \o to_le_bytes(t.inputs[index + 1].index)
    \o encode_compact_size(U64FromNat(Len(script)))
    \o script
    \o to_le_bytes(amount)
    \o to_le_bytes(t.inputs[index + 1].sequence)
    \o ForkOutputsHash(t, index, sig_hash)
    \o to_le_bytes(t.locktime)
    \o to_le_bytes(sig_hash)

\* Transaction::hash_fork
hash_fork(t, index, script, sig_hash, amount) ==
    IF ~SigHash_has_fork_id(sig_hash) THEN hash_original(t, index, script, sig_hash)
    ELSE IF index >= Len(t.inputs) THEN HashErr("panic")
    ELSE HashOk(double_sha256(ForkPreimage(t, index, script, sig_hash, amount)))

(***************************************************************************)
(* sign_inputs and verify                                                  *)
(***************************************************************************)
PUSH_33 == 33

\* A mutant of SigScript: the sighash byte is left out of the script.
SigScript_no_sighash_byte(der, pk) ==
    encode_compact_size(U64FromNat(Len(der) + 1)) \o der \o <<PUSH_33>> \o pk

\* The script_sig sign_inputs assembles for one input.
SigScript(der, pk) ==
    encode_compact_size(U64FromNat(Len(der) + 1))
    \o der
    \o <<SIGHASH_DEFAULT>>
    \o <<PUSH_33>>
    \o pk

Outpoint(input) == <<input.tx_hash, input.index>>

\* Transaction::sign_inputs from input i on: the transaction it leaves and its result.
RECURSIVE sign_from(_, _, _, _)
sign_from(t, i, prev, keys) ==
    IF i >= Len(t.inputs) THEN [tx |-> t, result |-> "ok"]
    ELSE LET input == t.inputs[i + 1] IN
         IF Outpoint(input) \notin DOMAIN prev THEN [tx |-> t, result |-> "MissingInput"]
         ELSE LET prev_out == prev[Outpoint(input)]
                  hash == hash_fork(t, i, prev_out.script, SigHash_default, prev_out.amount)
              IN
              IF hash.st # "ok" THEN [tx |-> t, result |-> hash.st]
              ELSE IF Output_address(prev_out) = <<>> THEN [tx |-> t, result |-> "InvalidScript"]
              ELSE IF Output_address(prev_out) \notin DOMAIN keys
              THEN [tx |-> t, result |-> "MissingKey"]
              ELSE LET pair == keys[Output_address(prev_out)]
                       der == SignDer(pair.sk, hash.hash)
                   IN  sign_from([t EXCEPT !.inputs[i + 1].script_sig = SigScript(der, pair.pk)],
                                 i + 1, prev, keys)

\* A sign_inputs that leaves the transaction as it was when any input fails.
sign_inputs_all_or_nothing(t, prev, keys) ==
    LET r == sign_from(t, 0, prev, keys) IN
    IF r.result = "ok" THEN r ELSE [tx |-> t, result |-> r.result]

\* A sign_inputs that reports success whatever happened to the inputs.
sign_inputs_reports_ok(t, prev, keys) ==
    [tx |-> sign_from(t, 0, prev, keys).tx, result |-> "ok"]

sign_inputs(t, prev, keys) == sign_from(t, 0, prev, keys)

\* Transaction::verify from input i on: "ok", the error it returns, or "panic".
RECURSIVE verify_from(_, _, _)
verify_from(t, i, prev) ==
    IF i >= Len(t.inputs) THEN "ok"
    ELSE LET input == t.inputs[i + 1]
             ss == input.script_sig
         IN
         IF Len(ss) = 0 THEN "panic"
         ELSE LET signature_length == ss[1] IN
              IF signature_length < 1 \/ signature_length > Len(ss) THEN "panic"
              ELSE IF ~IsDer(SubSeq(ss, 2, signature_length)) THEN "InvalidSignature"
              ELSE IF signature_length + 2 > Len(ss) THEN "panic"
              ELSE LET der == SubSeq(ss, 2, signature_length)
                       pub_key == PublicKeyFromSlice(SubSeq(ss, signature_length + 3, Len(ss)))
                       sig_hash == U32FromNat(ss[signature_length + 1])
                   IN
                   IF pub_key = 0 THEN "InvalidPublicKey"
                   ELSE IF Outpoint(input) \notin DOMAIN prev THEN "MissingInput"
                   ELSE LET output == prev[Outpoint(input)]
                            message == IF SigHash_has_fork_id(sig_hash)
                                       THEN hash_fork(t, i, output.script, sig_hash, output.amount)
                                       ELSE hash_original(t, i, output.script, sig_hash)
                        IN
                        IF message.st # "ok" THEN message.st
                        ELSE IF ~SignatureVerifies(der, message.hash, pub_key)
                        THEN "IncorrectSignature"
                        ELSE verify_from(t, i + 1, prev)

verify(t, prev) == verify_from(t, 0, prev)

(***************************************************************************)
(* Building, signing and verifying transactions.  A transaction is built,  *)
(* then signed; once signed it is not touched again (active.rs:136-215).   *)
(***************************************************************************)
\* The most inputs and outputs a transaction of the model is given.
MaxInputs == 2

MaxOutputs == 2

\* Transaction hashes as a peer may hand them over: 32 bytes, and one that is not.
TxHash(seed, len) == [i \in 1..len |-> (37 * seed + 3 * i) % 256]

OutpointSamples ==
    { <<TxHash(1, 32), U32FromNat(0)>>,
      <<TxHash(2, 32), U32FromNat(1)>>,
      <<TxHash(3, 31), U32FromNat(0)>> }

AMOUNT_A == <<0, 0, 0, 0, 0, 80, 124, 99>>

AMOUNT_B == <<0, 0, 0, 1, 42, 5, 202, 240>>

OutputSamples ==
    { Output_new_from_decoded(AMOUNT_B, KeyHash(2)),
      [amount |-> U64FromNat(0), script |-> <<OP_CHECKSIG>>] }

\* The previous outputs a caller may know of, and the keys it may hold.
PrevFull ==
    [o \in OutpointSamples |->
        IF o[1] = TxHash(2, 32) THEN Output_new_from_decoded(AMOUNT_B, KeyHash(2))
        ELSE Output_new_from_decoded(AMOUNT_A, KeyHash(1))]

PrevMissing == [o \in OutpointSamples \ {<<TxHash(1, 32), U32FromNat(0)>>} |-> PrevFull[o]]

PrevNonCanonical ==
    [PrevFull EXCEPT ![<<TxHash(2, 32), U32FromNat(1)>>] =
        [amount |-> AMOUNT_B, script |-> <<OP_CHECKSIG>>]]

KeyPair(k) == [sk |-> k, pk |-> PublicKeyBytes(k)]

KeysAll == [h \in {KeyHash(k) : k \in Keys} |-> KeyPair(CHOOSE k \in Keys : KeyHash(k) = h)]

KeysFirst == [h \in {KeyHash(1)} |-> KeyPair(1)]

\* What sign_inputs is handed: <<previous outputs, keys>>.
SignerSamples ==
    { <<PrevFull, KeysAll>>, <<PrevMissing, KeysAll>>,
      <<PrevNonCanonical, KeysAll>>, <<PrevFull, KeysFirst>> }

TxInit ==
    /\ tx = Transaction_default
    /\ \E signer \in SignerSamples :
           prev_outputs = signer[1] /\ address_keys = signer[2]
    /\ tx_op = [op |-> "default", result |-> "ok"]

\* Transaction::add_input(Input::new_decoded(tx_hash, index))
AddInput ==
    /\ tx_op.op # "sign_inputs"
    /\ Len(tx.inputs) < MaxInputs
    /\ \E o \in OutpointSamples :
           tx' = [tx EXCEPT !.inputs = Append(@, Input_new_decoded(o[1], o[2]))]
    /\ tx_op' = [op |-> "add_input", result |-> "ok"]
    /\ UNCHANGED <<prev_outputs, address_keys>>
    /\ UNCHANGED NotTx

\* Transaction::add_output(output)
AddOutput ==
    /\ tx_op.op # "sign_inputs"
    /\ Len(tx.outputs) < MaxOutputs
    /\ \E output \in OutputSamples :
           tx' = [tx EXCEPT !.outputs = Append(@, output)]
    /\ tx_op' = [op |-> "add_output", result |-> "ok"]
    /\ UNCHANGED <<prev_outputs, address_keys>>
    /\ UNCHANGED NotTx

\* Transaction::sign_inputs(&prev_outputs, &address_keys)
SignInputs ==
    /\ tx_op.op # "sign_inputs"
    /\ LET r == sign_inputs(tx, prev_outputs, address_keys) IN
       /\ tx' = r.tx
       /\ tx_op' = [op |-> "sign_inputs", result |-> r.result]
    /\ UNCHANGED <<prev_outputs, address_keys>>
    /\ UNCHANGED NotTx

TxNext == AddInput \/ AddOutput \/ SignInputs

(***************************************************************************)
(* Rate limiter.  Time is counted in milliseconds and advances in steps of *)
(* the polling interval.                                                   *)
(***************************************************************************)
POLL_MS == 100

\* The largest capacity a limiter of the model is created with, and the number of
\* polling intervals the clock runs for.
MaxCapacity == 3

MaxTicks == 15

Min(a, b) == IF a <= b THEN a ELSE b

\* RateLimiter::new(capacity) at time t
RateLimiter_new(capacity, t) == [capacity |-> capacity, tokens |-> capacity, last_update |-> t]

\* A mutant of update_tokens: the refill is not capped at the capacity.
update_tokens_uncapped(r, t) ==
    [r EXCEPT !.tokens = @ + ((t - r.last_update) * r.capacity) \div 1000, !.last_update = t]

\* RateLimiter::update_tokens at time t
update_tokens(r, t) ==
    LET elapsed == t - r.last_update
        tokens_to_add == (elapsed * r.capacity) \div 1000
    IN  [r EXCEPT !.tokens = Min(@ + tokens_to_add, r.capacity), !.last_update = t]

NoTake == [found |-> 1, left |-> 0, count |-> 0]

RateInit ==
    /\ now = 0
    /\ \E c \in 0..MaxCapacity : rl = RateLimiter_new(c, now)
    /\ rl_pc = "idle"
    /\ rl_wake = 0
    /\ rl_last = NoTake

\* `self.tokens -= 1` as take() ends (u32: below zero is an underflow).
take_decrement(r) == [r EXCEPT !.tokens = @ - 1]

\* take() is called: with a token at hand it returns at once, else it starts to poll.
TakeCall ==
    /\ rl_pc = "idle"
    /\ IF rl.tokens = 0
       THEN /\ rl_pc' = "sleeping"
            /\ rl_wake' = now + POLL_MS
            /\ UNCHANGED <<rl, rl_last>>
       ELSE /\ rl' = take_decrement(rl)
            /\ rl_last' = [found |-> rl.tokens, left |-> rl.tokens - 1, count |-> 1]
            /\ UNCHANGED <<rl_pc, rl_wake>>
    /\ UNCHANGED now
    /\ UNCHANGED NotRate

\* The TimeoutFuture fires (at its time or later): update_tokens, then the loop test.
TakePoll ==
    /\ rl_pc = "sleeping"
    /\ now >= rl_wake
    /\ LET r == update_tokens(rl, now) IN
       IF r.tokens = 0
       THEN /\ rl' = r
            /\ rl_wake' = now + POLL_MS
            /\ UNCHANGED <<rl_pc, rl_last>>
       ELSE /\ rl' = take_decrement(r)
            /\ rl_last' = [found |-> r.tokens, left |-> r.tokens - 1, count |-> 1]
            /\ rl_pc' = "idle"
            /\ UNCHANGED rl_wake
    /\ UNCHANGED now
    /\ UNCHANGED NotRate

\* The clock advances by one polling interval.
Tick ==
    /\ now < MaxTicks * POLL_MS
    /\ now' = now + POLL_MS
    /\ UNCHANGED <<rl, rl_pc, rl_wake, rl_last>>
    /\ UNCHANGED NotRate

RateNext == TakeCall \/ TakePoll \/ Tick

\* The limiter under a stopwatch.  In place of the last take, rl_last holds a
\* window of time: `start` is the moment it opened (-1 while it has not) and
\* `count` the number of take() calls that have completed in it.  The window
\* opens at the completion of a take of its choosing, which it counts.
NoWindow == [start |-> 0 - 1, count |-> 0]

Counted(w, t) ==
    IF w.start < 0 THEN {w, [start |-> t, count |-> 1]}
    ELSE {[w EXCEPT !.count = @ + 1]}

WindowInit ==
    /\ now = 0
    /\ \E c \in 1..MaxCapacity : rl = RateLimiter_new(c, now)
    /\ rl_pc = "idle"
    /\ rl_wake = 0
    /\ rl_last = NoWindow

\* take() is called, as in TakeCall; a take that completes is counted.
WindowTakeCall ==
    /\ rl_pc = "idle"
    /\ IF rl.tokens = 0
       THEN /\ rl_pc' = "sleeping"
            /\ rl_wake' = now + POLL_MS
            /\ UNCHANGED <<rl, rl_last>>
       ELSE /\ rl' = take_decrement(rl)
            /\ rl_last' \in Counted(rl_last, now)
            /\ UNCHANGED <<rl_pc, rl_wake>>
    /\ UNCHANGED now
    /\ UNCHANGED NotRate

\* The TimeoutFuture fires, as in TakePoll; a take that completes is counted.
WindowTakePoll ==
    /\ rl_pc = "sleeping"
    /\ now >= rl_wake
    /\ LET r == update_tokens(rl, now) IN
       IF r.tokens = 0
       THEN /\ rl' = r
            /\ rl_wake' = now + POLL_MS
            /\ UNCHANGED <<rl_pc, rl_last>>
       ELSE /\ rl' = take_decrement(r)
            /\ rl_last' \in Counted(rl_last, now)
            /\ rl_pc' = "idle"
            /\ UNCHANGED rl_wake
    /\ UNCHANGED now
    /\ UNCHANGED NotRate

WindowNext == WindowTakeCall \/ WindowTakePoll \/ Tick

\* One second, in ms: the time after which the bucket refills whole.
SECOND_MS == 1000

Max(a, b) == IF a >= b THEN a ELSE b

\* The clock advances by one polling interval, time being measured from the
\* present moment: `now` stays 0, last_update and the timer's due time move one
\* interval into the past.  update_tokens reads the clock only in the difference
\* get_timestamp() - last_update, and a difference of a second or more refills
\* the bucket whatever its size, so last_update is kept within one second.
TickFromNow ==
    /\ rl' = [rl EXCEPT !.last_update = Max(@ - POLL_MS, 0 - SECOND_MS)]
    /\ rl_wake' = Max(rl_wake - POLL_MS, 0)
    /\ UNCHANGED <<now, rl_pc, rl_last>>
    /\ UNCHANGED NotRate

RateNextLive == TakeCall \/ TakePoll \/ TickFromNow

(***************************************************************************)
(* Wallet scanner.  An address is <<chain, index>>: the address of the key *)
(* derived at `index` on the main or the change chain.  The oracle answers *)
(* a request with one entry per requested address, in the request's order. *)
(* A HashMap is iterated in an order its hasher fixes, chosen anew for     *)
(* every map; the model tells NumOrders of these orders apart.  The fields *)
(* `xprv` and `transactions` of FetchingState, which nothing reads after   *)
(* the scan, are left out.                                                 *)
(***************************************************************************)
\* The number of addresses in a batch (20 in the program) and the number of batches
\* in which the ledger may hold used addresses.
BatchSize == 3

MaxBatches == 2

HasHistory(a) == a[2] \in oracle[a[1]]

\* The unspent outputs the oracle reports for an address: one for a used address.
UnspentOf(a) ==
    IF HasHistory(a)
    THEN <<[tx_hash |-> a, tx_pos |-> 0,
            amount |-> 100 * (a[2] + 1) + (IF a[1] = "main" THEN 0 ELSE 50), address |-> a]>>
    ELSE <<>>

\* The number of iteration orders of a HashMap that are told apart.
NumOrders == 3

\* The addresses of S (of one chain) by derivation index.
RECURSIVE Ascending(_)
Ascending(S) ==
    IF S = {} THEN <<>>
    ELSE LET a == CHOOSE a \in S : \A b \in S : a[2] <= b[2]
         IN  <<a>> \o Ascending(S \ {a})

Rotate(s, r) == [i \in 1..Len(s) |-> s[((i - 1 + r) % Len(s)) + 1]]

\* The order the keys S come out of a map in under hasher `seed`: by index, by index
\* backwards, and these rotated.
KeyOrder(S, seed) ==
    Rotate(IF seed % 2 = 0 THEN Ascending(S) ELSE Reverse(Ascending(S)), seed \div 2)

\* The orders a HashMap with the keys S may be iterated in.
Orderings(S) == {KeyOrder(S, seed) : seed \in 0..(NumOrders - 1)}

\* last_tx_address: the number of leading addresses of the chunk that have history.
last_tx_address(chunk) ==
    IF \E i \in 1..Len(chunk) : ~HasHistory(chunk[i])
    THEN (CHOOSE i \in 1..Len(chunk) :
              ~HasHistory(chunk[i]) /\ \A j \in 1..(i - 1) : HasHistory(chunk[j])) - 1
    ELSE Len(chunk)

\* impl Default for FetchingState, and WalletState::default()
FetchingState_default ==
    [last_index |-> 0, lookup |-> {}, next_address |-> <<>>]

WalletState_default ==
    [main |-> FetchingState_default, change |-> FetchingState_default,
     balance |-> 0, unspent_outputs |-> <<>>]

NoScan ==
    [pc |-> "none", chain |-> "main", last_index |-> 0, lookup |-> {}, k |-> 0, main |-> FetchingState_default, change |-> FetchingState_default,
     active |-> <<>>, pos |-> 0, balance |-> 0, unspent_outputs |-> <<>>,
     panic |-> "none"]

\* The ledgers of the model: on the main chain the first j addresses are used and,
\* at will, the one after a gap of one address; on the change chain the first few
\* addresses.
MaxChangeUsed == 1

OracleSamples ==
    [main : UNION {{0..(j - 1), (0..(j - 1)) \cup {j + 1}} :
                       j \in 0..(MaxBatches * BatchSize)},
     change : {0..(j - 1) : j \in 0..MaxChangeUsed}]

ScanInit ==
    /\ oracle \in OracleSamples
    /\ syncing = FALSE
    /\ wallet = WalletState_default
    /\ scan = NoScan

\* A trigger_sync without its early return.
TimerTick_ignores_flag ==
    /\ syncing' = TRUE
    /\ scan' = [NoScan EXCEPT !.pc = "take"]
    /\ UNCHANGED <<oracle, wallet>>
    /\ UNCHANGED NotScan

\* trigger_sync, on a tick of the 5 s interval: nothing while a scan is in flight,
\* else the flag is set and a scan task is spawned (it runs up to its first await).
TimerTick ==
    /\ IF syncing
       THEN UNCHANGED <<syncing, scan>>
       ELSE /\ syncing' = TRUE
            /\ scan' = [NoScan EXCEPT !.pc = "take"]
    /\ UNCHANGED <<oracle, wallet>>
    /\ UNCHANGED NotScan

\* rate_limiter.take().await completes in fetch_used_data; the history request is sent.
ScanTake ==
    /\ scan.pc = "take"
    /\ scan' = [scan EXCEPT !.pc = "request"]
    /\ UNCHANGED <<oracle, syncing, wallet>>
    /\ UNCHANGED NotScan

\* What fetch_used_data does with the reply to the batch it asked for, the addresses
\* having been iterated in the order `addresses`: it loops, ends, or panics on
\* addresses[last_index + 1].  As the change chain ends, fetch_for_address collects
\* active_addresses from the two lookups, iterated in the orders `main_keys` and
\* `change_keys`.
\* A scan that goes to the unspent outputs as soon as the main chain has ended.
AfterHistory_skips_change(sc, addresses, main_keys, change_keys) ==
    LET k == last_tx_address(addresses)
        last_index == sc.last_index + k
        lookup == sc.lookup \cup {addresses[i] : i \in 1..Len(addresses)}
        seen == [sc EXCEPT !.last_index = last_index, !.lookup = lookup, !.k = k]
    IN
    IF ~(last_index = 0 \/ last_index % BatchSize # 0) THEN [seen EXCEPT !.pc = "take"]
    ELSE IF last_index + 1 >= Len(addresses)
    THEN [seen EXCEPT !.pc = "panicked", !.panic = "index out of bounds"]
    ELSE LET done == [last_index |-> last_index, lookup |-> lookup,
                      next_address |-> addresses[last_index + 2]]
         IN  [seen EXCEPT !.pc = "utxo_take", !.main = done,
                          !.active = KeyOrder(lookup, main_keys), !.pos = 0]

AfterHistory(sc, addresses, main_keys, change_keys) ==
    LET k == last_tx_address(addresses)
        last_index == sc.last_index + k
        lookup == sc.lookup \cup {addresses[i] : i \in 1..Len(addresses)}
        seen == [sc EXCEPT !.last_index = last_index, !.lookup = lookup, !.k = k]
    IN
    IF ~(last_index = 0 \/ last_index % BatchSize # 0) THEN [seen EXCEPT !.pc = "take"]
    ELSE IF last_index + 1 >= Len(addresses)
    THEN [seen EXCEPT !.pc = "panicked", !.panic = "index out of bounds"]
    ELSE LET done == [last_index |-> last_index, lookup |-> lookup,
                      next_address |-> addresses[last_index + 2]]
         IN  IF sc.chain = "main"
             THEN [seen EXCEPT !.pc = "take", !.chain = "change", !.main = done,
                               !.last_index = 0, !.lookup = {}]
             ELSE [seen EXCEPT !.pc = "utxo_take", !.change = done,
                               !.active = KeyOrder(sc.main.lookup, main_keys)
                                          \o KeyOrder(lookup, change_keys),
                               !.pos = 0]

\* The oracle answers the history request.
ScanHistory ==
    /\ scan.pc = "request"
    /\ LET batch == {<<scan.chain, i>> : i \in scan.last_index..(scan.last_index + BatchSize - 1)}
       IN  \E addresses \in Orderings(batch), main_keys, change_keys \in 0..(NumOrders - 1) :
               scan' = AfterHistory(scan, addresses, main_keys, change_keys)
    /\ UNCHANGED <<oracle, syncing, wallet>>
    /\ UNCHANGED NotScan

\* rate_limiter.take().await completes in the UTXO loop; the unspent request is sent.
UtxoTake ==
    /\ scan.pc = "utxo_take"
    /\ scan' = [scan EXCEPT !.pc = "utxo_request"]
    /\ UNCHANGED <<oracle, syncing, wallet>>
    /\ UNCHANGED NotScan

RECURSIVE RichOutputs(_)
RichOutputs(chunk) ==
    IF Len(chunk) = 0 THEN <<>> ELSE UnspentOf(Head(chunk)) \o RichOutputs(Tail(chunk))

RECURSIVE SumAmounts(_)
SumAmounts(outputs) ==
    IF Len(outputs) = 0 THEN 0 ELSE Head(outputs).amount + SumAmounts(Tail(outputs))

\* The oracle answers the unspent request for the chunk at `pos`; after the last chunk
\* fetch_for_address returns and trigger_sync publishes the state and clears the flag.
UtxoReply ==
    /\ scan.pc = "utxo_request"
    /\ LET last == Min(scan.pos + BatchSize, Len(scan.active))
           chunk == SubSeq(scan.active, scan.pos + 1, last)
           utxos == RichOutputs(chunk)
           balance == scan.balance + SumAmounts(utxos)
           unspent_outputs == scan.unspent_outputs \o utxos
       IN  IF last < Len(scan.active)
           THEN /\ scan' = [scan EXCEPT !.pc = "utxo_take", !.pos = last,
                                        !.balance = balance,
                                        !.unspent_outputs = unspent_outputs]
                /\ UNCHANGED <<wallet, syncing>>
           ELSE /\ wallet' = [main |-> scan.main, change |-> scan.change,
                              balance |-> balance, unspent_outputs |-> unspent_outputs]
                /\ syncing' = FALSE
                /\ scan' = NoScan
    /\ UNCHANGED oracle
    /\ UNCHANGED NotScan

\* A request fails: fetch_for_address returns Err and the unwrap in the task panics.
OracleError ==
    /\ scan.pc \in {"request", "utxo_request"}
    /\ scan' = [scan EXCEPT !.pc = "panicked", !.panic = "unwrap on Err"]
    /\ UNCHANGED <<oracle, syncing, wallet>>
    /\ UNCHANGED NotScan

ScanNext == TimerTick \/ ScanTake \/ ScanHistory \/ UtxoTake \/ UtxoReply \/ OracleError

(***************************************************************************)
(* Coin selector: the click handler `send_transaction` of SendToAddress.   *)
(* A string holding an address is modelled by what bs58::decode makes of   *)
(* it, a string holding a transaction hash by its hex digits (NOT_HEX for  *)
(* any other character).  The amount of the form is held in satoshis, as   *)
(* the handler has it after its conversion; amounts stay far below 2^64.   *)
(***************************************************************************)
Base58Text(bytes) == [b58 |-> TRUE, bytes |-> bytes]

NotBase58 == [b58 |-> FALSE, bytes |-> <<>>]

\* String::default()
EmptyText == Base58Text(<<>>)

\* util::to_address
to_address(bytes) ==
    LET prefixed == <<0>> \o bytes IN
    Base58Text(prefixed \o Prefix(sha256(sha256(prefixed)), 4))

NoOutput == [amount |-> U64FromNat(0), script |-> <<>>]

\* Output::new(amount, address)
Output_new(amount, address) ==
    LET decoded_address == address.bytes IN
    IF ~address.b58 THEN [st |-> "Base58Error", output |-> NoOutput]
    ELSE IF Len(decoded_address) # 25 \/ decoded_address[1] # 0
    THEN [st |-> "InvalidAddress", output |-> NoOutput]
    ELSE IF Prefix(double_sha256(Prefix(decoded_address, 21)), 4) # Drain(decoded_address, 21)
    THEN [st |-> "ChecksumError", output |-> NoOutput]
    ELSE [st |-> "ok",
          output |-> Output_new_from_decoded(U64FromNat(amount), SubSeq(decoded_address, 2, 21))]

NOT_HEX == 16

hex_encode(bytes) ==
    [i \in 1..(2 * Len(bytes)) |->
        IF i % 2 = 1 THEN bytes[(i + 1) \div 2] \div 16 ELSE bytes[i \div 2] % 16]

hex_decode(text) ==
    IF Len(text) % 2 = 1 \/ \E i \in 1..Len(text) : text[i] = NOT_HEX
    THEN [ok |-> FALSE, bytes |-> <<>>]
    ELSE [ok |-> TRUE,
          bytes |-> [i \in 1..(Len(text) \div 2) |-> 16 * text[2 * i - 1] + text[2 * i]]]

\* Input::new(tx_hash, index), the hex being decodable
Input_new(tx_hash, index) == Input_new_decoded(hex_decode(tx_hash).bytes, U32FromNat(index))

Transaction_add_input(t, input) == [t EXCEPT !.inputs = Append(@, input)]

Transaction_add_output(t, output) == [t EXCEPT !.outputs = Append(@, output)]

\* output_map: (decoded hash, position) -> the output spent; of two outputs with one
\* outpoint the later one stays.
OutputMap(outputs) ==
    LET KeyOf(o) == <<hex_decode(o.tx_hash).bytes, U32FromNat(o.tx_pos)>>
        Last(key) == CHOOSE i \in 1..Len(outputs) :
                         /\ KeyOf(outputs[i]) = key
                         /\ \A j \in (i + 1)..Len(outputs) : KeyOf(outputs[j]) # key
    IN  [key \in {KeyOf(outputs[i]) : i \in 1..Len(outputs)} |->
            Output_new_from_decoded(U64FromNat(outputs[Last(key)].amount),
                                    outputs[Last(key)].address)]

\* A first loop that takes every output, whatever the amount asked for.
RECURSIVE select_for_amount_all(_, _, _, _)
select_for_amount_all(t, outputs, output_sum, amount) ==
    IF Len(outputs) > 0
    THEN LET output == Head(outputs) IN
         select_for_amount_all(
             Transaction_add_input(t, Input_new(output.tx_hash, output.tx_pos)),
             Tail(outputs), output_sum + output.amount, amount)
    ELSE [tx |-> t, outputs |-> outputs, output_sum |-> output_sum]

\* `while output_sum < amount && !outputs.is_empty()`
RECURSIVE select_for_amount(_, _, _, _)
select_for_amount(t, outputs, output_sum, amount) ==
    IF output_sum < amount /\ Len(outputs) > 0
    THEN LET output == Head(outputs) IN
         select_for_amount(Transaction_add_input(t, Input_new(output.tx_hash, output.tx_pos)),
                           Tail(outputs), output_sum + output.amount, amount)
    ELSE [tx |-> t, outputs |-> outputs, output_sum |-> output_sum]

\* A mutant of the balance test: an exact match is refused too.
insufficient_balance_strict(amount, output_sum) == amount >= output_sum

\* `if amount > output_sum`
insufficient_balance(amount, output_sum) == amount > output_sum

\* A mutant of the fee loop: the fee is not computed again after an input is added.
fee_after_input_stale(t, fee) == fee

\* `fee = transaction.suggested_fee()` in the fee loop
fee_after_input(t, fee) == suggested_fee(t)

\* `while output_sum - amount < fee && !outputs.is_empty()`
RECURSIVE select_for_fee(_, _, _, _, _)
select_for_fee(t, outputs, output_sum, amount, fee) ==
    IF output_sum - amount < fee /\ Len(outputs) > 0
    THEN LET output == Head(outputs)
             with == Transaction_add_input(t, Input_new(output.tx_hash, output.tx_pos))
         IN  select_for_fee(with, Tail(outputs), output_sum + output.amount, amount,
                            fee_after_input(with, fee))
    ELSE [tx |-> t, outputs |-> outputs, output_sum |-> output_sum, fee |-> fee]

\* A mutant of the change: the fee is not taken off.
change_amount_without_fee(output_sum, amount, fee) == output_sum - amount

\* `let change = output_sum - amount - fee`
change_amount(output_sum, amount, fee) == output_sum - amount - fee

NoSend ==
    [outcome |-> "none", address |-> EmptyText, amount |-> 0, transaction |-> Transaction_default,
     output_sum |-> 0, fee |-> 0, change |-> 0, reported |-> 0,
     underflow |-> FALSE, signed |-> FALSE, published |-> FALSE]

\* The handler from its first line to its return: what it alerts or publishes, and
\* the transaction and the sums it holds as it returns.
send_transaction(address, amount, props) ==
    LET asked == [NoSend EXCEPT !.address = address, !.amount = amount]
        destination == Output_new(amount, address)
    IN
    IF address = EmptyText THEN [asked EXCEPT !.outcome = "AddressNotPresent"]
    ELSE IF amount < 1 THEN [asked EXCEPT !.outcome = "SmallValue"]
    ELSE IF destination.st # "ok" THEN [asked EXCEPT !.outcome = "CantSend"]
    ELSE IF \E i \in 1..Len(props.outputs) : ~hex_decode(props.outputs[i].tx_hash).ok
    THEN [asked EXCEPT !.outcome = "panic"]
    ELSE
    LET output_map == OutputMap(props.outputs)
        first == select_for_amount(Transaction_add_output(Transaction_default, destination.output),
                                   props.outputs, 0, amount)
        second == select_for_fee(first.tx, first.outputs, first.output_sum, amount,
                                 suggested_fee(first.tx))
        change == change_amount(second.output_sum, amount, second.fee)
        change_output == Output_new(change, props.change_address)
        signing == sign_inputs(Transaction_add_output(second.tx, change_output.output),
                               output_map, props.key_fetcher)
        selected == [asked EXCEPT !.transaction = second.tx, !.output_sum = second.output_sum,
                                  !.fee = second.fee,
                                  !.underflow = second.output_sum < amount]
        built == [selected EXCEPT !.change = change,
                                  !.underflow = @ \/ second.output_sum - amount < second.fee]
    IN
    IF insufficient_balance(amount, first.output_sum)
    THEN [asked EXCEPT !.outcome = "InsufficientBalance", !.transaction = first.tx,
                       !.output_sum = first.output_sum,
                       !.reported = amount - first.output_sum,
                       !.underflow = amount < first.output_sum]
    ELSE IF second.output_sum - amount < second.fee
    THEN [selected EXCEPT !.outcome = "InsufficientForFee", !.reported = amount + second.fee]
    ELSE IF change_output.st # "ok" THEN [built EXCEPT !.outcome = "InvalidChangeAddress"]
    ELSE IF signing.result # "ok"
    THEN [built EXCEPT !.outcome = "UnableToSign", !.transaction = signing.tx, !.signed = TRUE]
    ELSE [built EXCEPT !.outcome = "published", !.transaction = signing.tx,
                       !.signed = TRUE, !.published = TRUE]

\* The number of unspent outputs the wallet holds.
MaxUtxos == 3

UtxoSamples ==
    { [tx_hash |-> hex_encode(TxHash(1, 32)), tx_pos |-> 0, amount |-> 300, address |-> KeyHash(1)],
      [tx_hash |-> hex_encode(TxHash(2, 32)), tx_pos |-> 1, amount |-> 20, address |-> KeyHash(2)],
      [tx_hash |-> hex_encode(TxHash(3, 32)), tx_pos |-> 0, amount |-> 1000, address |-> KeyHash(1)],
      [tx_hash |-> <<NOT_HEX, 0>>, tx_pos |-> 0, amount |-> 50, address |-> KeyHash(1)] }

UtxoLists ==
    UNION { { f \in [1..n -> UtxoSamples] : \A i, j \in 1..n : f[i] = f[j] => i = j }
            : n \in 0..MaxUtxos }

\* The props after a scan, before any scan (no change address yet), and with a key
\* missing from key_fetcher.
PropSamples ==
    { [outputs |-> l, change_address |-> c[1], key_fetcher |-> c[2]] :
          l \in UtxoLists,
          c \in { <<to_address(KeyHash(1)), KeysAll>>, <<EmptyText, KeysAll>>,
                  <<to_address(KeyHash(1)), KeysFirst>> } }

AddressSamples ==
    { EmptyText, NotBase58, to_address(KeyHash(2)),
      Base58Text(Prefix(to_address(KeyHash(2)).bytes, 24) \o <<0>>) }

AmountSamples == {0, 50, 100, 300, 1500, 2000}

SendInit ==
    /\ send_props \in PropSamples
    /\ send_form = [address |-> EmptyText, amount |-> 0]
    /\ sent = NoSend

\* set_address, on input to the address field
SetAddress ==
    /\ \E a \in AddressSamples : send_form' = [send_form EXCEPT !.address = a]
    /\ sent' = NoSend
    /\ UNCHANGED send_props
    /\ UNCHANGED NotSend

\* set_amount, on input to the amount field
SetAmount ==
    /\ \E n \in AmountSamples : send_form' = [send_form EXCEPT !.amount = n]
    /\ sent' = NoSend
    /\ UNCHANGED send_props
    /\ UNCHANGED NotSend

\* send_transaction, on a click
SendTransaction ==
    /\ sent' = send_transaction(send_form.address, send_form.amount, send_props)
    /\ UNCHANGED <<send_props, send_form>>
    /\ UNCHANGED NotSend

SendNext == SetAddress \/ SetAmount \/ SendTransaction

(***************************************************************************)
(* The compact-size codec on sample values                                 *)
(***************************************************************************)
\* The number of bytes that may follow a varint in the buffer.
MaxTail == 2

\* u64 values with k significant digits: a leading digit and a fill.
SigValue(k, top, fill) == Zeros(8 - k) \o <<top>> \o [i \in 1..(k - 1) |-> fill]

U64Samples ==
    { SigValue(k, top, fill) : k \in 1..8, top \in {1, 123, 252, 253, 254, 255},
                               fill \in {0, 253, 255} }
    \cup { Zeros(8),
           <<0, 0, 0, 0, 0, 0, 171, 205>>,
           <<0, 0, 0, 0, 171, 205, 239, 1>>,
           <<171, 205, 239, 1, 35, 69, 103, 137>> }

TailSamples == { [i \in 1..k |-> b] : k \in 0..MaxTail, b \in {0, 253, 255} }

\* The forms of n a peer may put on the wire: every width that can hold it.
WireForms(n) ==
    (IF DigitsLeq(n, U64FromNat(MAX_SINGLE)) THEN {<<n[8]>>} ELSE {})
    \cup (IF DigitsLeq(n, U16_MAX_W) THEN {<<253>> \o to_le_bytes(SubSeq(n, 7, 8))} ELSE {})
    \cup (IF DigitsLeq(n, U32_MAX_W) THEN {<<254>> \o to_le_bytes(SubSeq(n, 5, 8))} ELSE {})
    \cup {<<255>> \o to_le_bytes(n)}

VarintInit ==
    /\ vi_n \in U64Samples
    /\ vi_tail \in TailSamples
    /\ vi_form = "none"
    /\ vi_buf = <<>>
    /\ vi_res = ReadPanic
    /\ vi_pc = "start"

\* encode_compact_size(n), followed in the buffer by the bytes of what comes next.
VarintEncode ==
    /\ vi_pc = "start"
    /\ vi_buf' = encode_compact_size(vi_n) \o vi_tail
    /\ vi_form' = "canonical"
    /\ vi_pc' = "encoded"
    /\ UNCHANGED <<vi_n, vi_tail, vi_res>>
    /\ UNCHANGED NotVarint

\* A buffer received from a peer that wrote n in a form wider than needed.
VarintReceive ==
    /\ vi_pc = "start"
    /\ \E f \in WireForms(vi_n) \ {encode_compact_size(vi_n)} :
           vi_buf' = f \o vi_tail
    /\ vi_form' = "overlong"
    /\ vi_pc' = "encoded"
    /\ UNCHANGED <<vi_n, vi_tail, vi_res>>
    /\ UNCHANGED NotVarint

VarintDecode ==
    /\ vi_pc = "encoded"
    /\ vi_res' = read_var_int(vi_buf)
    /\ vi_pc' = "decoded"
    /\ UNCHANGED <<vi_n, vi_tail, vi_form, vi_buf>>
    /\ UNCHANGED NotVarint

VarintNext == VarintEncode \/ VarintReceive \/ VarintDecode

(***************************************************************************)
(* Extended keys (bip32.rs).  A string is modelled by what bs58::decode    *)
(* makes of it, as for addresses.  An XPrv holds its 32 key bytes, an XPub *)
(* a public key, here a key number.  u32::to_be_bytes of a digit sequence  *)
(* (most significant digit first) is the sequence itself.                  *)
(***************************************************************************)
XPRV_VERSION == <<4, 136, 173, 228>>

XPUB_VERSION == <<4, 136, 178, 30>>

to_be_bytes(w) == w

from_be_bytes(b) == b

ExtendedKey(depth, child_number, parent_fingerprint, key, chain_code) ==
    [depth |-> depth, child_number |-> child_number,
     parent_fingerprint |-> parent_fingerprint, key |-> key, chain_code |-> chain_code]

\* The key field of a result that carries no key.
NoKey == ExtendedKey(0, Zeros(4), Zeros(4), Zeros(32), Zeros(32))

KeyOk(k) == [st |-> "ok", key |-> k]

KeyErr(kind) == [st |-> kind, key |-> NoKey]

\* The same layout without the 0x00 byte in front of the key.
XPrv_payload_unpadded(k) ==
    XPRV_VERSION \o <<k.depth>> \o k.parent_fingerprint \o to_be_bytes(k.child_number)
        \o k.chain_code \o k.key

\* The 78 bytes the checksum covers, as XPrv::serialize lays them out.
XPrv_payload(k) ==
    XPRV_VERSION \o <<k.depth>> \o k.parent_fingerprint \o to_be_bytes(k.child_number)
        \o k.chain_code \o <<0>> \o k.key

\* XPrv::serialize
XPrv_serialize(k) ==
    LET xprv == XPrv_payload(k) IN
    Base58Text(xprv \o Prefix(sha256(sha256(xprv)), 4))

\* impl FromStr for XPrv.  decoded[..78] panics on a shorter vector.
XPrv_from_str(s) ==
    LET decoded == s.bytes IN
    IF ~s.b58 THEN KeyErr("Base58Error")
    ELSE IF Len(decoded) < 78 THEN KeyErr("panic")
    ELSE IF Drain(decoded, 78) # Prefix(sha256(sha256(Prefix(decoded, 78))), 4)
    THEN KeyErr("Checksum mismatch")
    ELSE KeyOk(ExtendedKey(decoded[5],
                           from_be_bytes(SubSeq(decoded, 10, 13)),
                           SubSeq(decoded, 6, 9),
                           SubSeq(decoded, 47, 78),
                           SubSeq(decoded, 14, 45)))

\* impl From<XPub> for String
XPub_to_string(value) ==
    LET xprv == XPUB_VERSION \o <<value.depth>> \o value.parent_fingerprint
                    \o to_be_bytes(value.child_number) \o value.chain_code
                    \o PublicKeyBytes(value.key)
    IN  Base58Text(xprv \o Prefix(sha256(sha256(xprv)), 4))

\* impl FromStr for XPub
XPub_from_str(s) ==
    LET decoded == s.bytes IN
    IF ~s.b58 THEN KeyErr("Base58Error")
    ELSE IF Len(decoded) < 78 THEN KeyErr("panic")
    ELSE IF Drain(decoded, 78) # Prefix(sha256(sha256(Prefix(decoded, 78))), 4)
    THEN KeyErr("Checksum mismatch")
    ELSE IF PublicKeyFromSlice(SubSeq(decoded, 46, 78)) = 0 THEN KeyErr("InvalidPublicKey")
    ELSE KeyOk(ExtendedKey(decoded[5],
                           from_be_bytes(SubSeq(decoded, 10, 13)),
                           SubSeq(decoded, 6, 9),
                           PublicKeyFromSlice(SubSeq(decoded, 46, 78)),
                           SubSeq(decoded, 14, 45)))

(***************************************************************************)
(* Derivation paths (bip32.rs).  A path is the sequence of its characters; *)
(* "U+0663" stands for one character, ARABIC-INDIC DIGIT THREE, which the  *)
(* regex class \d matches and u32::from_str does not accept.               *)
(***************************************************************************)
AsciiDigits == <<"0", "1", "2", "3", "4", "5", "6", "7", "8", "9">>

IsAsciiDigit(c) == \E i \in 1..10 : AsciiDigits[i] = c

DigitValue(c) == (CHOOSE i \in 1..10 : AsciiDigits[i] = c) - 1

\* The regex class \d: every Unicode decimal digit.
IsRegexDigit(c) == IsAsciiDigit(c) \/ c = "U+0663"

\* 10 * w + d for a u32 w, and whether it still fits a u32.
MulAdd10(w, d) ==
    LET d4 == 10 * w[4] + d
        d3 == 10 * w[3] + (d4 \div 256)
        d2 == 10 * w[2] + (d3 \div 256)
        d1 == 10 * w[1] + (d2 \div 256)
    IN  [fits |-> d1 < 256, value |-> <<d1 % 256, d2 % 256, d3 % 256, d4 % 256>>]

\* str::parse::<u32>: ASCII digits only, at least one, the value below 2^32.
RECURSIVE ParseDigits(_, _)
ParseDigits(chars, acc) ==
    IF Len(chars) = 0 THEN [ok |-> TRUE, value |-> acc]
    ELSE IF ~IsAsciiDigit(Head(chars)) THEN [ok |-> FALSE, value |-> acc]
    ELSE LET next == MulAdd10(acc, DigitValue(Head(chars))) IN
         IF ~next.fits THEN [ok |-> FALSE, value |-> acc]
         ELSE ParseDigits(Tail(chars), next.value)

parse_u32(chars) ==
    IF Len(chars) = 0 THEN [ok |-> FALSE, value |-> Zeros(4)]
    ELSE ParseDigits(chars, Zeros(4))

\* The first position from i on that does not hold a digit of the class \d.
RECURSIVE DigitsEnd(_, _)
DigitsEnd(path, i) ==
    IF i <= Len(path) /\ IsRegexDigit(path[i]) THEN DigitsEnd(path, i + 1) ELSE i

\* (/\d+'?)+$ from position i on: a slash, digits, an optional apostrophe, and
\* then the end of the string or the next component.
RECURSIVE MatchComponents(_, _)
MatchComponents(path, i) ==
    IF i > Len(path) \/ path[i] # "/" THEN FALSE
    ELSE LET j == DigitsEnd(path, i + 1)
             k == IF j <= Len(path) /\ path[j] = "'" THEN j + 1 ELSE j
         IN  j > i + 1 /\ (k > Len(path) \/ MatchComponents(path, k))

\* Regex::new(r"^m(/\d+'?)+$").is_match(path)
is_match(path) == Len(path) >= 1 /\ path[1] = "m" /\ MatchComponents(path, 2)

\* path.split('/'): the pieces between the slashes.
RECURSIVE split(_, _)
split(path, piece) ==
    IF Len(path) = 0 THEN <<piece>>
    ELSE IF Head(path) = "/" THEN <<piece>> \o split(Tail(path), <<>>)
    ELSE split(Tail(path), Append(piece, Head(path)))

HARDENED_INDEX == <<128, 0, 0, 0>>

IsHardened(index) == index[1] >= 128

\* One component under the closure of filter_map: a u32, nothing (the parse
\* failed), or a panic (HARDENED_INDEX + v overflowed with overflow checks on).
\* Without overflow checks the sum wraps.
Component(p, overflow_checks) ==
    IF Len(p) > 0 /\ p[Len(p)] = "'"
    THEN LET v == parse_u32(SubSeq(p, 1, Len(p) - 1)) IN
         IF ~v.ok THEN [st |-> "none", index |-> Zeros(4)]
         ELSE IF IsHardened(v.value)
         THEN IF overflow_checks THEN [st |-> "panic", index |-> Zeros(4)]
              ELSE [st |-> "some", index |-> [v.value EXCEPT ![1] = @ - 128]]
         ELSE [st |-> "some", index |-> [v.value EXCEPT ![1] = @ + 128]]
    ELSE LET v == parse_u32(p) IN
         IF v.ok THEN [st |-> "some", index |-> v.value]
         ELSE [st |-> "none", index |-> Zeros(4)]

PathOk(indices) == [st |-> "ok", path |-> indices]

PathErr(kind) == [st |-> kind, path |-> <<>>]

\* DerivePath::parse_path.  overflow_checks tells the two builds apart.
parse_path(path, overflow_checks) ==
    IF ~is_match(path) THEN PathErr("Invalid derivation path")
    ELSE LET pieces == Tail(split(path, <<>>))
             parsed == [i \in 1..Len(pieces) |-> Component(pieces[i], overflow_checks)]
         IN  IF \E i \in 1..Len(pieces) : parsed[i].st = "panic" THEN PathErr("panic")
             ELSE LET kept == SelectSeq(parsed, LAMBDA c : c.st = "some") IN
                  PathOk([i \in 1..Len(kept) |-> kept[i].index])

(***************************************************************************)
(* Public derivation (bip32.rs).  HMAC-SHA512 is stood for by a digest of  *)
(* 64 bytes over the key and the data; the sum of two curve points by a    *)
(* key number that depends on both.                                        *)
(***************************************************************************)
hmac_sha512(key, data) == Digest(<<54>> \o key \o <<92>> \o data, 64)

\* SecretKey::from_slice(il).public_key().combine(&parent)
combine(il, parent) == ((WeightedSum(il, 1, Len(il), 11, 32713) + parent) % NumKeys) + 1

\* XPub::fingerprint
XPub_fingerprint(k) == Prefix(ripemd160(sha256(PublicKeyBytes(k.key))), 4)

HardenedFromPublic == "Cannot derive hardened keys from public"

\* XPub::derive.  self.depth + 1 is a u8 sum: at depth 255 it panics with
\* overflow checks and wraps to 0 without.
XPub_derive(k, index, overflow_checks) ==
    IF IsHardened(index) THEN KeyErr(HardenedFromPublic)
    ELSE LET i == hmac_sha512(k.chain_code, PublicKeyBytes(k.key) \o to_be_bytes(index))
             public_key == combine(Prefix(i, 32), k.key)
         IN  IF k.depth = 255 /\ overflow_checks THEN KeyErr("panic")
             ELSE KeyOk(ExtendedKey((k.depth + 1) % 256, index, XPub_fingerprint(k),
                                    public_key, Drain(i, 32)))

\* key.derive(item)? over the items of the path, from the left.
RECURSIVE DeriveAlong(_, _, _)
DeriveAlong(k, path, overflow_checks) ==
    IF Len(path) = 0 THEN KeyOk(k)
    ELSE LET child == XPub_derive(k, Head(path), overflow_checks) IN
         IF child.st # "ok" THEN child
         ELSE DeriveAlong(child.key, Tail(path), overflow_checks)

\* impl DerivePath<XPub> for XPub: derive_path.  path[0] panics on an empty Vec.
XPub_derive_path(k, path, overflow_checks) ==
    LET parsed == parse_path(path, overflow_checks) IN
    IF parsed.st # "ok" THEN KeyErr(parsed.st)
    ELSE IF \E i \in 1..Len(parsed.path) : IsHardened(parsed.path[i])
    THEN KeyErr(HardenedFromPublic)
    ELSE IF Len(parsed.path) = 0 THEN KeyErr("panic")
    ELSE DeriveAlong(k, parsed.path, overflow_checks)

(***************************************************************************)
(* Addresses (util.rs)                                                     *)
(***************************************************************************)
AddressOk(bytes) == [st |-> "ok", bytes |-> bytes]

AddressErr(kind) == [st |-> kind, bytes |-> <<>>]

\* address_bytes returning the first 20 decoded bytes, version byte included.
address_bytes_with_version(address) ==
    LET decoded == address.bytes IN
    IF ~address.b58 THEN AddressErr("Base58Error")
    ELSE IF Len(decoded) # 25 \/ decoded[1] # 0 THEN AddressErr("InvalidAddress")
    ELSE IF Prefix(double_sha256(Prefix(decoded, 21)), 4) # Drain(decoded, 21)
    THEN AddressErr("ChecksumError")
    ELSE AddressOk(SubSeq(decoded, 1, 20))

\* util::address_bytes
address_bytes(address) ==
    LET decoded == address.bytes IN
    IF ~address.b58 THEN AddressErr("Base58Error")
    ELSE IF Len(decoded) # 25 \/ decoded[1] # 0 THEN AddressErr("InvalidAddress")
    ELSE IF Prefix(double_sha256(Prefix(decoded, 21)), 4) # Drain(decoded, 21)
    THEN AddressErr("ChecksumError")
    ELSE AddressOk(SubSeq(decoded, 2, 21))

(***************************************************************************)
(* The key, address and path codecs on sample inputs                       *)
(***************************************************************************)
DepthSamples == {0, 1, 255}

ChildNumberSamples ==
    {U32FromNat(0), U32FromNat(1), <<128, 0, 0, 0>>, <<255, 255, 255, 255>>, <<1, 2, 3, 4>>}

FingerprintSamples == {Zeros(4), <<222, 173, 190, 239>>}

ChainCodeSamples == {[i \in 1..32 |-> i], [i \in 1..32 |-> 255 - i]}

SecretSamples == {[i \in 1..32 |-> (3 * i) % 256], Zeros(32)}

XPrvSamples ==
    {ExtendedKey(d, c, f, k, cc) : d \in DepthSamples, c \in ChildNumberSamples,
        f \in FingerprintSamples, k \in SecretSamples, cc \in ChainCodeSamples}

XPubSamples ==
    {ExtendedKey(d, c, f, k, cc) : d \in DepthSamples, c \in ChildNumberSamples,
        f \in FingerprintSamples, k \in Keys, cc \in ChainCodeSamples}

\* Strings that are not the serialization of a key: not base58, too short,
\* and a serialization with its last byte changed.
ForeignKeyTexts ==
    {NotBase58, Base58Text(XPRV_VERSION)}
    \cup {LET t == XPrv_serialize(k).bytes IN
          Base58Text([t EXCEPT ![Len(t)] = (@ + 1) % 256]) : k \in {NoKey}}

HashSamples == {KeyHash(k) : k \in Keys} \cup {Zeros(20), [i \in 1..20 |-> 255]}

\* Strings that are not the address of a hash: not base58, empty, one byte short,
\* one byte long, another version byte, a changed checksum byte, a changed hash byte.
ForeignAddressTexts ==
    {NotBase58, EmptyText}
    \cup UNION {LET t == to_address(h).bytes
                    v == <<5>> \o h
                IN  {Base58Text(Prefix(t, 24)),
                     Base58Text(t \o <<0>>),
                     Base58Text(v \o Prefix(sha256(sha256(v)), 4)),
                     Base58Text([t EXCEPT ![25] = (@ + 1) % 256]),
                     Base58Text([t EXCEPT ![2] = (@ + 1) % 256])} : h \in HashSamples}

\* The longest sample path, in components.
MaxPathLen == 2

NumberTexts ==
    {<<"0">>, <<"1">>, <<"0", "0", "7">>,
     <<"2", "1", "4", "7", "4", "8", "3", "6", "4", "7">>,
     <<"2", "1", "4", "7", "4", "8", "3", "6", "4", "8">>,
     <<"4", "2", "9", "4", "9", "6", "7", "2", "9", "5">>,
     <<"4", "2", "9", "4", "9", "6", "7", "2", "9", "6">>,
     <<"U+0663">>}

ComponentTexts == {<<"/">> \o n : n \in NumberTexts} \cup {<<"/">> \o n \o <<"'">> : n \in NumberTexts}

RECURSIVE PathsOfLen(_)
PathsOfLen(n) ==
    IF n = 0 THEN {<<"m">>}
    ELSE {p \o c : p \in PathsOfLen(n - 1), c \in ComponentTexts}

\* Strings that the regex turns away.
ForeignPathTexts ==
    {<<>>, <<"m">>, <<"m", "/">>, <<"n", "/", "0">>, <<"M", "/", "0">>, <<"/", "0">>,
     <<"m", "/", "0", "/">>, <<"m", "/", "/", "0">>, <<"m", "/", "0", "'", "'">>,
     <<"m", "/", "-", "1">>, <<"m", "/", "0", "x">>, <<"m", "/", "'">>, <<"m", "0">>}

PathSamples == UNION {PathsOfLen(n) : n \in 1..MaxPathLen} \cup ForeignPathTexts

CodecSubjects ==
    {[kind |-> "xprv", key |-> k] : k \in XPrvSamples}
    \cup {[kind |-> "xpub", key |-> k] : k \in XPubSamples}
    \cup {[kind |-> "key_text", text |-> t] : t \in ForeignKeyTexts}
    \cup {[kind |-> "hash", hash |-> h] : h \in HashSamples}
    \cup {[kind |-> "address_text", text |-> t] : t \in ForeignAddressTexts}
    \cup {[kind |-> "path", path |-> p] : p \in PathSamples}

CodecInit ==
    /\ kc_subject \in CodecSubjects
    /\ kc_result = [op |-> "none"]

\* xprv.serialize() and String::from(xpub)
Serialize ==
    /\ kc_result.op = "none"
    /\ kc_subject.kind \in {"xprv", "xpub"}
    /\ kc_result' = [op |-> "serialize", kind |-> kc_subject.kind,
                     text |-> IF kc_subject.kind = "xprv"
                              THEN XPrv_serialize(kc_subject.key)
                              ELSE XPub_to_string(kc_subject.key)]
    /\ UNCHANGED <<kc_subject, NotCodec>>

\* text.parse::<XPrv>() and text.parse::<XPub>(), of a serialization just made
\* or of a string from elsewhere.
FromStr ==
    /\ \/ /\ kc_result.op = "serialize"
          /\ kc_result' = [op |-> "from_str", kind |-> kc_result.kind,
                           text |-> kc_result.text,
                           parsed |-> IF kc_result.kind = "xprv"
                                      THEN XPrv_from_str(kc_result.text)
                                      ELSE XPub_from_str(kc_result.text)]
       \/ /\ kc_result.op = "none"
          /\ kc_subject.kind = "key_text"
          /\ \E kind \in {"xprv", "xpub"} :
                kc_result' = [op |-> "from_str", kind |-> kind,
                              text |-> kc_subject.text,
                              parsed |-> IF kind = "xprv"
                                         THEN XPrv_from_str(kc_subject.text)
                                         ELSE XPub_from_str(kc_subject.text)]
    /\ UNCHANGED <<kc_subject, NotCodec>>

\* util::to_address(hash)
ToAddress ==
    /\ kc_result.op = "none"
    /\ kc_subject.kind = "hash"
    /\ kc_result' = [op |-> "to_address", text |-> to_address(kc_subject.hash)]
    /\ UNCHANGED <<kc_subject, NotCodec>>

\* util::address_bytes(&text), of an address just made or of a string from elsewhere.
AddressBytes ==
    /\ \/ /\ kc_result.op = "to_address"
          /\ kc_result' = [op |-> "address_bytes", text |-> kc_result.text,
                           decoded |-> address_bytes(kc_result.text)]
       \/ /\ kc_result.op = "none"
          /\ kc_subject.kind = "address_text"
          /\ kc_result' = [op |-> "address_bytes", text |-> kc_subject.text,
                           decoded |-> address_bytes(kc_subject.text)]
    /\ UNCHANGED <<kc_subject, NotCodec>>

IndexSamples ==
    {U32FromNat(0), U32FromNat(1), <<127, 255, 255, 255>>, HARDENED_INDEX,
     <<128, 0, 0, 1>>, <<255, 255, 255, 255>>}

\* xpub.derive(index)
Derive ==
    /\ kc_result.op = "none"
    /\ kc_subject.kind = "xpub"
    /\ \E index \in IndexSamples, overflow_checks \in BOOLEAN :
          kc_result' = [op |-> "derive", index |-> index,
                        overflow_checks |-> overflow_checks,
                        derived |-> XPub_derive(kc_subject.key, index, overflow_checks)]
    /\ UNCHANGED <<kc_subject, NotCodec>>

\* xpub.derive_path(path), on the keys that no parent is recorded for.
DerivePath ==
    /\ kc_result.op = "none"
    /\ kc_subject.kind = "xpub"
    /\ kc_subject.key.parent_fingerprint = Zeros(4)
    /\ kc_subject.key.child_number = Zeros(4)
    /\ kc_subject.key.chain_code[1] = 1
    /\ \E path \in PathSamples, overflow_checks \in BOOLEAN :
          kc_result' = [op |-> "derive_path", path |-> path,
                        overflow_checks |-> overflow_checks,
                        derived |-> XPub_derive_path(kc_subject.key, path, overflow_checks)]
    /\ UNCHANGED <<kc_subject, NotCodec>>

\* Self::parse_path(path), in a build with or without overflow checks.
ParsePath ==
    /\ kc_result.op = "none"
    /\ kc_subject.kind = "path"
    /\ \E overflow_checks \in BOOLEAN :
          kc_result' = [op |-> "parse_path", overflow_checks |-> overflow_checks,
                        parsed |-> parse_path(kc_subject.path, overflow_checks)]
    /\ UNCHANGED <<kc_subject, NotCodec>>

\* The strings the store may hold under "xprv": the serialization of a private
\* key, that serialization with one more byte, the serialization of a public
\* key, or a string from elsewhere.
StoredTexts(subject) ==
    CASE subject.kind = "xprv" ->
             {XPrv_serialize(subject.key),
              Base58Text(XPrv_serialize(subject.key).bytes \o <<0>>)}
      [] subject.kind = "xpub" -> {XPub_to_string(subject.key)}
      [] subject.kind = "key_text" -> {subject.text}
      [] OTHER -> {}

\* load_xprv with a value in the store: the value is parsed and, when the parse
\* returns Ok, the key is set as the state.
LoadXprv ==
    /\ kc_result.op = "none"
    /\ \E value \in StoredTexts(kc_subject) :
          LET parsed == XPrv_from_str(value) IN
          kc_result' = [op |-> "load_xprv", text |-> value, parsed |-> parsed,
                        xprv_state |-> IF parsed.st = "ok" THEN <<parsed.key>> ELSE <<>>]
    /\ UNCHANGED <<kc_subject, NotCodec>>

CodecNext ==
    \/ Serialize
    \/ FromStr
    \/ ToAddress
    \/ AddressBytes
    \/ ParsePath
    \/ Derive
    \/ DerivePath
    \/ LoadXprv

(***************************************************************************)
(* Calls on transactions that came off the wire: their inputs may carry a  *)
(* script_sig already.  sign_inputs, hash_original and try_from are each   *)
(* called once on a sample transaction.                                    *)
(***************************************************************************)
\* A script_sig left by an earlier signer.
OldScript == <<2, 81, 81>>

ProbeInputs ==
    {[Input_new_decoded(o[1], o[2]) EXCEPT !.script_sig = ss] :
        o \in {p \in OutpointSamples : Len(p[1]) = 32}, ss \in {<<>>, OldScript}}

RECURSIVE SeqsUpTo(_, _)
SeqsUpTo(S, n) ==
    IF n = 0 THEN {<<>>}
    ELSE SeqsUpTo(S, n - 1)
         \cup {Append(q, x) : q \in {r \in SeqsUpTo(S, n - 1) : Len(r) = n - 1}, x \in S}

ProbeTransactions ==
    {[Transaction_default EXCEPT !.inputs = ins, !.outputs = outs] :
        ins \in SeqsUpTo(ProbeInputs, MaxInputs), outs \in SeqsUpTo(OutputSamples, MaxOutputs)}

\* SIGHASH words: ALL, NONE, SINGLE, each alone, with FORKID (0x40) and with
\* ANYONECANPAY (0x80), and a word whose low five bits are SINGLE under higher bits.
SigHashSamples == {U32FromNat(b) : b \in {1, 2, 3, 65, 66, 67, 129, 131, 35}}

\* The script hash_original is handed: P2PKH with a code separator in front.
ProbeScript == <<OP_CODESEPARATOR>> \o Output_new_from_decoded(AMOUNT_A, KeyHash(1)).script

\* Bytes that may follow a serialized transaction in a buffer.
ExtraSamples == {<<>>, <<0>>, <<1, 0>>, TransactionBytes(Transaction_default)}

ProbeInit ==
    /\ pb_tx \in ProbeTransactions
    /\ pb_res = [op |-> "none"]

\* transaction.sign_inputs(&previous_outputs, &address_keys)
SignDecoded ==
    /\ pb_res.op = "none"
    /\ \E signer \in SignerSamples :
          LET r == sign_inputs(pb_tx, signer[1], signer[2]) IN
          /\ pb_tx' = r.tx
          /\ pb_res' = [op |-> "sign_inputs", previous_outputs |-> signer[1],
                        address_keys |-> signer[2], result |-> r.result]
    /\ UNCHANGED NotProbe

\* transaction.hash_original(index, &script, &sig_hash)
HashOriginal ==
    /\ pb_res.op = "none"
    /\ \E index \in 0..(MaxInputs + 1), sig_hash \in SigHashSamples :
          pb_res' = [op |-> "hash_original", index |-> index, sig_hash |-> sig_hash,
                     script |-> ProbeScript, self |-> pb_tx,
                     current_signing |-> IF has_invalid_flag(pb_tx, index, sig_hash)
                                         THEN pb_tx
                                         ELSE LegacyClone(pb_tx, index, ProbeScript, sig_hash),
                     result |-> hash_original(pb_tx, index, ProbeScript, sig_hash)]
    /\ UNCHANGED <<pb_tx, NotProbe>>

\* SIGHASH words with FORKID (0x40): ALL, NONE, SINGLE and base 0, alone and
\* with ANYONECANPAY, and a word with bits above the low byte.
ForkSigHashSamples ==
    {U32FromNat(b) : b \in {64, 65, 66, 67, 193, 194, 195}} \cup {<<1, 2, 3, 67>>}

\* transaction.hash_fork(index, &script, &sig_hash, amount); the preimage it
\* hashes is kept beside the result.
HashFork ==
    /\ pb_res.op = "none"
    /\ \E index \in 0..MaxInputs, sig_hash \in ForkSigHashSamples :
          pb_res' = [op |-> "hash_fork", index |-> index, sig_hash |-> sig_hash,
                     script |-> ProbeScript, amount |-> AMOUNT_A,
                     preimage |-> IF index < Len(pb_tx.inputs)
                                  THEN ForkPreimage(pb_tx, index, ProbeScript, sig_hash, AMOUNT_A)
                                  ELSE <<>>,
                     result |-> hash_fork(pb_tx, index, ProbeScript, sig_hash, AMOUNT_A)]
    /\ UNCHANGED <<pb_tx, NotProbe>>

\* Transaction::try_from(bytes), the bytes being the serialization of the
\* transaction and what follows it in the buffer.
TryFrom ==
    /\ pb_res.op = "none"
    /\ \E extra \in ExtraSamples :
          pb_res' = [op |-> "try_from", value |-> TransactionBytes(pb_tx), extra |-> extra,
                     result |-> Transaction_try_from(TransactionBytes(pb_tx) \o extra)]
    /\ UNCHANGED <<pb_tx, NotProbe>>

\* The key maps a signer may hand to sign_inputs: under each 20-byte hash any
\* key pair the signer holds, the hash's own or another.
SignerKeyMaps == [{KeyHash(k) : k \in Keys} -> {KeyPair(k) : k \in Keys}]

\* transaction.sign_inputs(&previous_outputs, &address_keys) by a signer who
\* chooses the key to sign each address with.
SignAs ==
    /\ pb_res.op = "none"
    /\ \E keys \in SignerKeyMaps :
          LET r == sign_inputs(pb_tx, PrevFull, keys) IN
          /\ pb_tx' = r.tx
          /\ pb_res' = [op |-> "sign_inputs", previous_outputs |-> PrevFull,
                        address_keys |-> keys, result |-> r.result]
    /\ UNCHANGED NotProbe

\* transaction.verify(&previous_outputs) on the transaction a signer has returned.
Verify ==
    /\ pb_res.op = "sign_inputs"
    /\ pb_res' = [op |-> "verify", previous_outputs |-> pb_res.previous_outputs,
                  address_keys |-> pb_res.address_keys,
                  result |-> verify(pb_tx, pb_res.previous_outputs)]
    /\ UNCHANGED <<pb_tx, NotProbe>>

\* Byte strings that end before the transaction they start is complete: every
\* strict prefix of a serialization, the serialization with its input count
\* raised above what follows, and (with an input present) with the first
\* script length raised above what follows (250, a single-byte count).
Truncations(bytes) ==
    {Prefix(bytes, n) : n \in 0..(Len(bytes) - 1)}
    \cup {[bytes EXCEPT ![5] = 250]}
    \cup (IF bytes[5] > 0 THEN {[bytes EXCEPT ![42] = 250]} ELSE {})

\* Transaction::try_from(bytes) on a byte string that ends early.
TryFromTruncated ==
    /\ pb_res.op = "none"
    /\ \E value \in Truncations(TransactionBytes(pb_tx)) :
          pb_res' = [op |-> "try_from_truncated", complete |-> TransactionBytes(pb_tx),
                     value |-> value, result |-> Transaction_try_from(value)]
    /\ UNCHANGED <<pb_tx, NotProbe>>

ProbeNext ==
    \/ SignDecoded
    \/ HashOriginal
    \/ TryFrom
    \/ HashFork
    \/ TryFromTruncated
    \/ SignAs
    \/ Verify

(***************************************************************************)
(* Specifications.  Each part of the program is checked on its own: the    *)
(* variables of the other parts rest at a fixed value.                     *)
(***************************************************************************)
VarintIdle ==
    /\ vi_n = Zeros(8)
    /\ vi_tail = <<>>
    /\ vi_form = "none"
    /\ vi_buf = <<>>
    /\ vi_res = ReadPanic
    /\ vi_pc = "idle"

TxIdle ==
    /\ tx = Transaction_default
    /\ prev_outputs = <<>>
    /\ address_keys = <<>>
    /\ tx_op = [op |-> "idle", result |-> "ok"]

RateIdle ==
    /\ rl = RateLimiter_new(0, 0)
    /\ now = 0
    /\ rl_pc = "idle"
    /\ rl_wake = 0
    /\ rl_last = NoTake

ScanIdle ==
    /\ oracle = [main |-> {}, change |-> {}]
    /\ syncing = FALSE
    /\ wallet = WalletState_default
    /\ scan = NoScan

SendIdle ==
    /\ send_props = [outputs |-> <<>>, change_address |-> EmptyText, key_fetcher |-> <<>>]
    /\ send_form = [address |-> EmptyText, amount |-> 0]
    /\ sent = NoSend

CodecIdle ==
    /\ kc_subject = [kind |-> "none"]
    /\ kc_result = [op |-> "idle"]

ProbeIdle ==
    /\ pb_tx = Transaction_default
    /\ pb_res = [op |-> "idle"]

\* The compact-size codec.
InitVarint == VarintInit /\ TxIdle /\ RateIdle /\ ScanIdle /\ SendIdle /\ CodecIdle /\ ProbeIdle

NextVarint == VarintNext

\* The rate limiter.
InitRate == RateInit /\ TxIdle /\ VarintIdle /\ ScanIdle /\ SendIdle /\ CodecIdle /\ ProbeIdle

NextRate == RateNext

SpecRate == InitRate /\ [][NextRate]_vars

\* The rate limiter under the browser's scheduling: time passes, and a timer
\* that is due fires (it may fire late, it does not fail to fire).
NextRateLive == RateNextLive

SpecRateLive ==
    InitRate /\ [][NextRateLive]_vars /\ WF_vars(TakePoll) /\ WF_vars(TickFromNow)

SpecVarint == InitVarint /\ [][NextVarint]_vars

\* The wallet scanner.
InitRateWindow ==
    WindowInit /\ TxIdle /\ VarintIdle /\ ScanIdle /\ SendIdle /\ CodecIdle /\ ProbeIdle

NextRateWindow == WindowNext

SpecRateWindow == InitRateWindow /\ [][NextRateWindow]_vars

InitScan == ScanInit /\ TxIdle /\ VarintIdle /\ RateIdle /\ SendIdle /\ CodecIdle /\ ProbeIdle

NextScan == ScanNext

SpecScan == InitScan /\ [][NextScan]_vars

\* The coin selector.
\* The scanner with its scheduling: the interval keeps firing, the executor runs
\* a task whose take() has been granted, and every request the task has sent is
\* answered or fails.
SpecScanLive ==
    /\ InitScan
    /\ [][NextScan]_vars
    /\ WF_vars(TimerTick)
    /\ WF_vars(ScanTake)
    /\ WF_vars(UtxoTake)
    /\ WF_vars(ScanHistory \/ OracleError)
    /\ WF_vars(UtxoReply \/ OracleError)

InitSend == SendInit /\ TxIdle /\ VarintIdle /\ RateIdle /\ ScanIdle /\ CodecIdle /\ ProbeIdle

NextSend == SendNext

SpecSend == InitSend /\ [][NextSend]_vars

\* The key, address and path codecs.
InitCodec == CodecInit /\ TxIdle /\ VarintIdle /\ RateIdle /\ ScanIdle /\ SendIdle /\ ProbeIdle

NextCodec == CodecNext

SpecCodec == InitCodec /\ [][NextCodec]_vars

\* Single calls on decoded transactions.
InitProbe == ProbeInit /\ TxIdle /\ VarintIdle /\ RateIdle /\ ScanIdle /\ SendIdle /\ CodecIdle

NextProbe == ProbeNext

SpecProbe == InitProbe /\ [][NextProbe]_vars

\* The transaction engine: build, sign, verify.
Init == TxInit /\ VarintIdle /\ RateIdle /\ ScanIdle /\ SendIdle /\ CodecIdle /\ ProbeIdle

Next == TxNext

Spec == Init /\ [][Next]_vars

(***************************************************************************)
(* C1, C2: the transaction codec and the signing engine                    *)
(***************************************************************************)
\* Whether tx was built by add_input and add_output calls alone.
Built == tx_op.op \in {"default", "add_input", "add_output"}

\* C1: for every transaction t built from Transaction::default by add_input (inputs
\* from Input::new / Input::new_decoded) and add_output calls, deserializing the
\* serialization of t succeeds and yields t, field by field.
C1_RoundTrip ==
    Built => Transaction_try_from(TransactionBytes(tx)) = Parsed(tx)

\* The same for the transactions whose inputs all carry a 32-byte tx_hash.
RoundTrip32 ==
    (\A i \in 1..Len(tx.inputs) : Len(tx.inputs[i].tx_hash) = 32)
        => Transaction_try_from(TransactionBytes(tx)) = Parsed(tx)

\* C2: after a successful sign_inputs(prev_outputs, address_keys), verify(prev_outputs)
\* succeeds on the transaction: every input's script_sig has the layout verify parses
\* (length byte, DER signature, sighash byte 0x41, 0x21, 33-byte public key) and both
\* sides compute the same FORKID message hash.
C2_SignThenVerify ==
    (tx_op.op = "sign_inputs" /\ tx_op.result = "ok") =>
        /\ verify(tx, prev_outputs) = "ok"
        /\ \A i \in 1..Len(tx.inputs) :
              LET ss == tx.inputs[i].script_sig IN
              /\ ss[1] = Len(ss) - 35
              /\ IsDer(SubSeq(ss, 2, ss[1]))
              /\ ss[ss[1] + 1] = 65
              /\ ss[ss[1] + 2] = 33
              /\ PublicKeyFromSlice(SubSeq(ss, ss[1] + 3, Len(ss))) \in Keys

\* C2 witness: a transaction with two inputs spending outputs of two different keys
\* was signed with success.
C2_Witness ==
    /\ tx_op.op = "sign_inputs" /\ tx_op.result = "ok"
    /\ Len(tx.inputs) = 2 /\ Len(tx.outputs) >= 1
    /\ tx.inputs[1].script_sig # tx.inputs[2].script_sig
    /\ tx.inputs[1].tx_hash # tx.inputs[2].tx_hash

(***************************************************************************)
(* C9: the token bucket                                                    *)
(***************************************************************************)
\* The addresses of a chain at last_index .. last_index + BatchSize - 1 have no history.
FullGap(chain, fs) ==
    \A i \in fs.last_index..(fs.last_index + BatchSize - 1) : i \notin oracle[chain]

\* C3: when the scan of a chain has ended, the batch-size many addresses from
\* last_index on all have empty history: the scan never stops while an address with
\* history lies within the next batch-size indices.
C3_StopsAfterFullGap ==
    /\ scan.chain = "change" => FullGap("main", scan.main)
    /\ scan.pc \in {"utxo_take", "utxo_request"} => FullGap("change", scan.change)
    /\ wallet # WalletState_default =>
           FullGap("main", wallet.main) /\ FullGap("change", wallet.change)

\* C4: as soon as a batch has fewer than batch-size leading used addresses the scan
\* loop of the chain is left, also when last_index is a non-zero multiple of the
\* batch size: the loop never goes round again after such a batch.
C4_ExitsOnShortBatch ==
    ~(scan.pc \in {"take", "request"} /\ scan.lookup # {} /\ scan.k < BatchSize)

\* The sum of the amounts of the first n outputs of the props.
SumFirst(n) == SumAmounts(SubSeq(send_props.outputs, 1, n))

\* The inputs the first n outputs of the props make.
InputsFirst(n) ==
    [i \in 1..n |-> Input_new(send_props.outputs[i].tx_hash, send_props.outputs[i].tx_pos)]

\* suggested_fee of the transaction that holds the first n outputs of the props as
\* inputs and the destination output alone.
FeeWith(n) ==
    suggested_fee([Transaction_default EXCEPT
                       !.inputs = InputsFirst(n),
                       !.outputs = <<Output_new(sent.amount, sent.address).output>>])

\* The handler came as far as selecting inputs.
SelectorReached ==
    sent.outcome \notin {"none", "AddressNotPresent", "SmallValue", "CantSend", "panic"}

Unsigned(t) == \A i \in 1..Len(t.inputs) : t.inputs[i].script_sig = <<>>

\* C5: when the coin selector has built a transaction, it has exactly the two outputs
\* [destination with the requested amount, change] in this order, its inputs are a
\* prefix of the unspent outputs, and the sum of their amounts is amount + change +
\* fee, no subtraction having gone below zero, where fee is suggested_fee of the
\* transaction with all selected inputs and the destination output alone.
C5_TwoOutputsAndBalance ==
    sent.outcome \in {"published", "UnableToSign"} =>
        LET t == sent.transaction
            n == Len(t.inputs)
        IN  /\ Len(t.outputs) = 2
            /\ t.outputs[1] = Output_new(sent.amount, sent.address).output
            /\ t.outputs[2] = Output_new(sent.change, send_props.change_address).output
            /\ NatOf(t.outputs[1].amount) = sent.amount
            /\ n <= Len(send_props.outputs)
            /\ \A i \in 1..n : Outpoint(t.inputs[i]) = Outpoint(InputsFirst(n)[i])
            /\ sent.output_sum = SumFirst(n)
            /\ sent.change >= 0
            /\ SumFirst(n) = sent.amount + sent.change + sent.fee
            /\ sent.fee = FeeWith(n)
            /\ ~sent.underflow

\* C5 witness: a transaction with two inputs was built and published, with change left.
C5_Witness ==
    /\ sent.outcome = "published"
    /\ Len(sent.transaction.inputs) = 2
    /\ sent.change > 0
    /\ sent.fee = 374

\* C6: the coin selector fails with the insufficient-balance outcome exactly when the
\* sum of all unspent outputs is less than the requested amount; it then reports
\* amount minus that sum, adds no change output, signs nothing and publishes nothing.
C6_InsufficientBalance ==
    LET total == SumFirst(Len(send_props.outputs)) IN
    /\ sent.outcome = "InsufficientBalance" <=> (SelectorReached /\ total < sent.amount)
    /\ sent.outcome = "InsufficientBalance" =>
           /\ sent.reported = sent.amount - total
           /\ Len(sent.transaction.outputs) = 1
           /\ Unsigned(sent.transaction)
           /\ ~sent.signed /\ ~sent.published /\ ~sent.underflow

\* C6 witness: two unspent outputs that together fall short of the requested amount.
C6_Witness ==
    /\ sent.outcome = "InsufficientBalance"
    /\ Len(send_props.outputs) = 2
    /\ sent.reported = 1500 - 320

\* The prefixes of the unspent outputs the loops stop to look at, from the first that
\* covers the amount on, all leave less than their fee.
FeeStarved ==
    LET all == Len(send_props.outputs)
        covering == {n \in 0..all : SumFirst(n) >= sent.amount}
    IN  /\ covering # {}
        /\ \A n \in covering : SumFirst(n) - sent.amount < FeeWith(n)

\* C7: the coin selector fails with the insufficient-for-fee outcome exactly when the
\* unspent outputs cover the amount but no prefix the loop reaches leaves the fee; all
\* outputs are inputs by then, amount + fee is reported with the fee of that
\* transaction, and nothing is signed or published.
C7_InsufficientForFee ==
    LET all == Len(send_props.outputs) IN
    /\ sent.outcome = "InsufficientForFee" <=> (SelectorReached /\ FeeStarved)
    /\ sent.outcome = "InsufficientForFee" =>
           /\ Len(sent.transaction.inputs) = all
           /\ sent.output_sum = SumFirst(all)
           /\ sent.output_sum - sent.amount < FeeWith(all)
           /\ sent.reported = sent.amount + FeeWith(all)
           /\ Len(sent.transaction.outputs) = 1
           /\ Unsigned(sent.transaction)
           /\ ~sent.signed /\ ~sent.published /\ ~sent.underflow

\* C7 witness: the first output covered the amount, the second was added for the fee,
\* and the two still left less than the fee of a two-input transaction.
C7_Witness ==
    /\ sent.outcome = "InsufficientForFee"
    /\ Len(send_props.outputs) = 2
    /\ SumFirst(1) >= sent.amount
    /\ sent.reported = 100 + 374

\* C8: two scans over the same ledger publish unspent_outputs with the same contents
\* in the same order: a scan that completes after an earlier one leaves the published
\* list as it was.
C8_SameOrder ==
    [][(wallet # WalletState_default /\ wallet' # wallet)
           => wallet'.unspent_outputs = wallet.unspent_outputs]_vars


\* C9: for a RateLimiter created with capacity C, 0 <= tokens <= C in every reachable
\* state, the bucket starts with tokens = C, and every completed take() finds
\* tokens >= 1 immediately before it decrements and decrements by exactly 1.
C9_TokensInRange ==
    /\ rl.tokens >= 0 /\ rl.tokens <= rl.capacity
    /\ (now = 0 /\ rl_last.count = 0) => rl.tokens = rl.capacity
    /\ rl_last.found >= 1 /\ (rl_last.count = 1 => rl_last.found <= rl.capacity)
    /\ rl_last.left = rl_last.found - 1

\* C9 witness: a take() that had to wait for a refill completed, and left the bucket
\* filled to less than its capacity.
C9_Witness ==
    /\ rl_last.count = 1
    /\ rl.last_update > 0
    /\ rl.capacity = 3
    /\ rl_last.found = 3 /\ rl.tokens = 2

(***************************************************************************)
(* C10                                                                     *)
(***************************************************************************)
\* The number of significant base-256 digits of a u64.
SigDigits(w) == IF w = Zeros(8) THEN 0 ELSE 9 - (CHOOSE i \in 1..8 : w[i] # 0 /\ \A j \in 1..(i - 1) : w[j] = 0)

\* The length the compact-size rule prescribes for n, from its magnitude.
ShortestLen(n) ==
    IF SigDigits(n) <= 1 /\ n[8] <= 252 THEN 1
    ELSE IF SigDigits(n) <= 2 THEN 3
    ELSE IF SigDigits(n) <= 4 THEN 5
    ELSE 9

\* C10: for every u64 n, read_var_int applied to encode_compact_size(n) returns n
\* and consumes exactly the emitted bytes (what followed them is what is left);
\* the emitted form is the shortest one (1 byte up to 252, 0xFD + 2 bytes LE up to
\* 0xFFFF, 0xFE + 4 bytes LE up to 0xFFFFFFFF, else 0xFF + 8 bytes LE); and
\* read_var_int also returns n for the over-long forms of n.
C10_VarintRoundTrip ==
    /\ vi_pc # "start" /\ vi_form = "canonical" =>
          LET enc == Prefix(vi_buf, Len(vi_buf) - Len(vi_tail)) IN
          /\ Len(enc) = ShortestLen(vi_n)
          /\ Len(enc) = 1 => enc = <<vi_n[8]>>
          /\ Len(enc) = 3 => enc = <<253, vi_n[8], vi_n[7]>>
          /\ Len(enc) = 5 => enc = <<254, vi_n[8], vi_n[7], vi_n[6], vi_n[5]>>
          /\ Len(enc) = 9 => enc = <<255>> \o Reverse(vi_n)
    /\ vi_pc = "decoded" =>
          /\ vi_res.st = "ok"
          /\ vi_res.value = vi_n
          /\ vi_res.rest = vi_tail

\* C10 witness: a value above 0xFFFF was emitted in its 5-byte form and read back,
\* and an over-long form was read back too.
C10_Witness ==
    /\ vi_pc = "decoded"
    /\ vi_res.st = "ok"
    /\ \/ vi_form = "canonical" /\ SigDigits(vi_n) = 3 /\ Len(vi_tail) > 0
       \/ vi_form = "overlong" /\ SigDigits(vi_n) = 1 /\ Len(vi_buf) = 9 + Len(vi_tail)

(***************************************************************************)
(* C11                                                                     *)
(***************************************************************************)
\* C11: parsing the string an XPrv or an XPub serializes to yields a key with
\* the same depth, child number, parent fingerprint, chain code and key material.
C11_KeyRoundTrip ==
    kc_result.op = "from_str" /\ kc_subject.kind \in {"xprv", "xpub"}
        => /\ kc_result.parsed.st = "ok"
           /\ kc_result.parsed.key.depth = kc_subject.key.depth
           /\ kc_result.parsed.key.child_number = kc_subject.key.child_number
           /\ kc_result.parsed.key.parent_fingerprint = kc_subject.key.parent_fingerprint
           /\ kc_result.parsed.key.chain_code = kc_subject.key.chain_code
           /\ kc_result.parsed.key.key = kc_subject.key.key

\* A key at depth 255 with a hardened child number came back from its string.
C11_Witness ==
    /\ kc_result.op = "from_str"
    /\ kc_subject.kind \in {"xprv", "xpub"}
    /\ kc_subject.key.depth = 255
    /\ kc_subject.key.child_number = <<128, 0, 0, 0>>
    /\ kc_result.parsed.st = "ok"
    /\ kc_result.parsed.key = kc_subject.key

(***************************************************************************)
(* C12                                                                     *)
(***************************************************************************)
\* What the claim calls a malformed address: the decoded string is not 25 bytes
\* long, or does not start with 0x00, or its last four bytes are not the first
\* four of the double SHA-256 of the 21 before them.
Malformed(text) ==
    \/ Len(text.bytes) # 25
    \/ text.bytes[1] # 0
    \/ SubSeq(text.bytes, 22, 25) # SubSeq(sha256(sha256(SubSeq(text.bytes, 1, 21))), 1, 4)

\* C12: address_bytes(to_address(h)) is h for every 20-byte hash h, and
\* address_bytes rejects every string that is malformed.
C12_AddressRoundTrip ==
    kc_result.op = "address_bytes"
        => /\ kc_subject.kind = "hash" => kc_result.decoded = AddressOk(kc_subject.hash)
           /\ kc_result.text.b58 /\ Malformed(kc_result.text) => kc_result.decoded.st # "ok"
           /\ ~kc_result.text.b58 => kc_result.decoded.st # "ok"

\* The hash of twenty zero bytes came back from its address.
C12_Witness ==
    /\ kc_result.op = "address_bytes"
    /\ kc_subject.kind = "hash"
    /\ kc_subject.hash = Zeros(20)
    /\ kc_result.decoded.st = "ok"

\* A string with a changed checksum byte was rejected.
C12_RejectWitness ==
    /\ kc_result.op = "address_bytes"
    /\ kc_subject.kind = "address_text"
    /\ Len(kc_result.text.bytes) = 25
    /\ kc_result.text.bytes[1] = 0
    /\ kc_result.decoded.st = "ChecksumError"

(***************************************************************************)
(* C13                                                                     *)
(***************************************************************************)
\* The components of a path: what stands between the slashes after "m".
Pieces(path) == Tail(split(path, <<>>))

Apostrophe(p) == Len(p) > 0 /\ p[Len(p)] = "'"

Number(p) == parse_u32(IF Apostrophe(p) THEN SubSeq(p, 1, Len(p) - 1) ELSE p)

\* A component of the grammar: a decimal u32, and below 2^31 under an apostrophe.
WellFormed(p) == Number(p).ok /\ (Apostrophe(p) => Number(p).value[1] < 128)

\* The index the component stands for: its number, plus 2^31 under an apostrophe.
IndexOf(p) ==
    IF Apostrophe(p) THEN [Number(p).value EXCEPT ![1] = @ + 128] ELSE Number(p).value

InGrammar(path) ==
    /\ Len(path) >= 3
    /\ path[1] = "m"
    /\ path[2] = "/"
    /\ \A i \in 1..Len(Pieces(path)) : WellFormed(Pieces(path)[i])

\* C13: parse_path fails with the invalid-derivation-path error, or returns one
\* index per component of the path, in order; a string outside the grammar
\* m(/<u32>'?)+ fails, and no component is dropped.
C13_ParsePath ==
    kc_result.op = "parse_path"
        => \/ kc_result.parsed.st = "Invalid derivation path"
           \/ /\ kc_result.parsed.st = "ok"
              /\ InGrammar(kc_subject.path)
              /\ Len(kc_result.parsed.path) = Len(Pieces(kc_subject.path))
              /\ \A i \in 1..Len(kc_result.parsed.path) :
                    kc_result.parsed.path[i] = IndexOf(Pieces(kc_subject.path)[i])

\* The part of C13 that the program does keep: a path of the grammar parses to
\* its indices.
C13_InGrammarParses ==
    kc_result.op = "parse_path" /\ InGrammar(kc_subject.path)
        => /\ kc_result.parsed.st = "ok"
           /\ Len(kc_result.parsed.path) = Len(Pieces(kc_subject.path))
           /\ \A i \in 1..Len(kc_result.parsed.path) :
                 kc_result.parsed.path[i] = IndexOf(Pieces(kc_subject.path)[i])

(***************************************************************************)
(* C14                                                                     *)
(***************************************************************************)
\* A path the regex accepts with an apostrophe on at least one component.
HasHardenedComponent(path) ==
    is_match(path) /\ \E i \in 1..Len(Pieces(path)) : Apostrophe(Pieces(path)[i])

\* C14: XPub::derive with an index of 2^31 or more fails with the
\* public-hardened error, and with a smaller index returns a child one level
\* deeper that records the index and the parent's fingerprint; XPub::derive_path
\* fails with the public-hardened error for every path with a hardened component.
C14_PublicDerivation ==
    /\ kc_result.op = "derive"
           => IF IsHardened(kc_result.index)
              THEN kc_result.derived.st = HardenedFromPublic
              ELSE /\ kc_result.derived.st = "ok"
                   /\ kc_result.derived.key.depth = kc_subject.key.depth + 1
                   /\ kc_result.derived.key.child_number = kc_result.index
                   /\ kc_result.derived.key.parent_fingerprint
                          = XPub_fingerprint(kc_subject.key)
    /\ kc_result.op = "derive_path" /\ HasHardenedComponent(kc_result.path)
           => kc_result.derived.st = HardenedFromPublic

\* The part of C14 about derive below depth 255, which the program keeps.
C14_DeriveBelowMaxDepth ==
    kc_result.op = "derive" /\ kc_subject.key.depth < 255
        => IF IsHardened(kc_result.index)
           THEN kc_result.derived.st = HardenedFromPublic
           ELSE /\ kc_result.derived.st = "ok"
                /\ kc_result.derived.key.depth = kc_subject.key.depth + 1
                /\ kc_result.derived.key.child_number = kc_result.index
                /\ kc_result.derived.key.parent_fingerprint = XPub_fingerprint(kc_subject.key)

\* The part of C14 about derive_path on the paths of the grammar, which the
\* program keeps.
C14_GrammarPathsRefused ==
    kc_result.op = "derive_path" /\ HasHardenedComponent(kc_result.path)
        /\ InGrammar(kc_result.path)
        => kc_result.derived.st = HardenedFromPublic

(***************************************************************************)
(* C15                                                                     *)
(***************************************************************************)
\* What stops sign_inputs at an input, "ok" when nothing does: its outpoint is
\* not among the previous outputs, else the previous output is not canonical
\* P2PKH, else no key is held for its address.
Obstacle(input, previous_outputs, keys) ==
    IF Outpoint(input) \notin DOMAIN previous_outputs THEN "MissingInput"
    ELSE IF Output_address(previous_outputs[Outpoint(input)]) = <<>> THEN "InvalidScript"
    ELSE IF Output_address(previous_outputs[Outpoint(input)]) \notin DOMAIN keys
    THEN "MissingKey"
    ELSE "ok"

\* The 0-based index of the first input with an obstacle, the number of inputs
\* when there is none.
FirstFailing(t, previous_outputs, keys) ==
    LET Bad == {i \in 0..(Len(t.inputs) - 1) :
                   Obstacle(t.inputs[i + 1], previous_outputs, keys) # "ok"}
    IN  IF Bad = {} THEN Len(t.inputs)
        ELSE CHOOSE i \in Bad : \A j \in Bad : i <= j

\* C15: sign_inputs takes the inputs in ascending order and stops at the first
\* that fails, with MissingInput, else InvalidScript, else MissingKey; the inputs
\* before it carry a new script_sig, it and the later ones keep theirs, and
\* nothing else of the transaction changes.
C15_SignStopsAtFirstFailure ==
    [][pb_res'.op = "sign_inputs" /\ pb_res.op = "none"
        => LET f == FirstFailing(pb_tx, pb_res'.previous_outputs, pb_res'.address_keys)
               n == Len(pb_tx.inputs)
           IN  /\ pb_res'.result = IF f = n THEN "ok"
                                   ELSE Obstacle(pb_tx.inputs[f + 1], pb_res'.previous_outputs,
                                                 pb_res'.address_keys)
               /\ pb_tx'.version = pb_tx.version
               /\ pb_tx'.outputs = pb_tx.outputs
               /\ pb_tx'.locktime = pb_tx.locktime
               /\ Len(pb_tx'.inputs) = n
               /\ \A i \in 1..n :
                     /\ pb_tx'.inputs[i].tx_hash = pb_tx.inputs[i].tx_hash
                     /\ pb_tx'.inputs[i].index = pb_tx.inputs[i].index
                     /\ pb_tx'.inputs[i].sequence = pb_tx.inputs[i].sequence
                     /\ i > f => pb_tx'.inputs[i].script_sig = pb_tx.inputs[i].script_sig
                     /\ i <= f => /\ pb_tx'.inputs[i].script_sig # pb_tx.inputs[i].script_sig
                                  /\ pb_tx'.inputs[i].script_sig[Len(SignDer(1, Zeros(32))) + 2]
                                         = SIGHASH_DEFAULT]_vars

\* sign_inputs failed at the second input of a transaction whose inputs both
\* carried an earlier script_sig: the first is signed anew, the second kept.
C15_Witness ==
    /\ pb_res.op = "sign_inputs"
    /\ pb_res.result = "MissingKey"
    /\ Len(pb_tx.inputs) = 2
    /\ pb_tx.inputs[1].script_sig \notin {<<>>, OldScript}
    /\ pb_tx.inputs[2].script_sig = OldScript

(***************************************************************************)
(* C16                                                                     *)
(***************************************************************************)
\* C16: hash_original(i, script, sighash) fails with InputOutOfBounds when i is
\* not below the number of inputs, and when the low five bits of the flag are
\* SINGLE (3) and i is not below the number of outputs; otherwise it returns a hash.
C16_HashOriginalBounds ==
    pb_res.op = "hash_original"
        => IF \/ pb_res.index >= Len(pb_tx.inputs)
              \/ (pb_res.sig_hash[4] % 32 = 3 /\ pb_res.index >= Len(pb_tx.outputs))
           THEN pb_res.result.st = "InputOutOfBounds"
           ELSE pb_res.result.st = "ok" /\ Len(pb_res.result.hash) = 32

\* SINGLE under ANYONECANPAY, on the second input of a transaction with one
\* output: refused although the input exists.
C16_Witness ==
    /\ pb_res.op = "hash_original"
    /\ pb_res.sig_hash = U32FromNat(131)
    /\ pb_res.index = 1
    /\ Len(pb_tx.inputs) = 2
    /\ Len(pb_tx.outputs) = 1
    /\ pb_res.result.st = "InputOutOfBounds"

\* NONE on the same input is answered with a hash.
C16_HashWitness ==
    /\ pb_res.op = "hash_original"
    /\ pb_res.sig_hash = U32FromNat(2)
    /\ pb_res.index = 1
    /\ Len(pb_tx.inputs) = 2
    /\ Len(pb_tx.outputs) = 1
    /\ pb_res.result.st = "ok"

(***************************************************************************)
(* C17                                                                     *)
(***************************************************************************)
\* C17: a serialization that try_from accepts, followed by one or more bytes,
\* is refused with LeftoverData carrying exactly those bytes.
C17_LeftoverData ==
    pb_res.op = "try_from" /\ Len(pb_res.extra) > 0
        /\ Transaction_try_from(pb_res.value).st = "ok"
        => /\ pb_res.result.st = "LeftoverData"
           /\ pb_res.result.leftover = pb_res.extra

\* A whole second transaction followed the first in the buffer.
C17_Witness ==
    /\ pb_res.op = "try_from"
    /\ Len(pb_tx.inputs) = 2
    /\ pb_tx.inputs[1].script_sig = OldScript
    /\ Len(pb_tx.outputs) = 2
    /\ pb_res.extra = TransactionBytes(Transaction_default)
    /\ pb_res.result.st = "LeftoverData"
    /\ pb_res.result.leftover = pb_res.extra

(***************************************************************************)
(* C18                                                                     *)
(***************************************************************************)
\* The used addresses of the chain are the first few, without a gap.
Contiguous(chain) == oracle[chain] = 0..(Cardinality(oracle[chain]) - 1)

\* The first unused address after the last used one, on such a chain.
FirstUnused(chain) == <<chain, Cardinality(oracle[chain])>>

\* C18: the scan of a chain never reads outside its batch when it picks the
\* next address, and the next address is the first unused one after the last
\* used one in derivation order.
C18_NextAddress ==
    /\ scan.panic # "index out of bounds"
    /\ scan.pc # "none" /\ scan.chain = "change" /\ Contiguous("main")
           => scan.main.next_address = FirstUnused("main")
    /\ scan.pc \in {"utxo_take", "utxo_request"} /\ Contiguous("change")
           => scan.change.next_address = FirstUnused("change")

\* The two halves of C18, each on its own.
C18_NoReadOutsideBatch == scan.panic # "index out of bounds"

C18_FirstUnused ==
    scan.pc # "none" /\ scan.chain = "change" /\ Contiguous("main")
        => scan.main.next_address = FirstUnused("main")

(***************************************************************************)
(* C19                                                                     *)
(***************************************************************************)
\* C19: with the capacity of 3 tokens per second and the 100 ms poll, a take()
\* that has to wait for a token eventually returns.
C19_TakeReturns == (rl.capacity = 3 /\ rl_pc = "sleeping") ~> (rl_pc = "idle")

(***************************************************************************)
(* C20                                                                     *)
(***************************************************************************)
\* The first n unspent outputs cover the amount and leave the fee of the
\* transaction that holds them as inputs.
Enough(n) ==
    SumFirst(n) >= sent.amount /\ SumFirst(n) - sent.amount >= FeeWith(n)

\* The handler went past both selection loops.
SelectionDone == sent.outcome \in {"published", "UnableToSign", "InvalidChangeAddress"}

\* C20: the inputs the coin selector has chosen are the first outputs of the
\* list, in list order; when the selection succeeds they are the shortest such
\* prefix that covers the amount and leaves the fee of the transaction holding
\* it, and the fee is the one computed after the last input was added.
C20_ShortestPrefix ==
    SelectorReached =>
        LET t == sent.transaction
            n == Len(t.inputs)
        IN  /\ n <= Len(send_props.outputs)
            /\ \A i \in 1..n : Outpoint(t.inputs[i]) = Outpoint(InputsFirst(n)[i])
            /\ sent.output_sum = SumFirst(n)
            /\ SelectionDone =>
                   /\ Enough(n)
                   /\ \A m \in 0..(n - 1) : ~Enough(m)
                   /\ sent.fee = FeeWith(n)

\* The first output covered the amount but not the fee, the second was added in
\* the fee phase, and a third was left alone.
C20_Witness ==
    /\ sent.outcome = "published"
    /\ Len(send_props.outputs) = 3
    /\ Len(sent.transaction.inputs) = 2
    /\ SumFirst(1) >= sent.amount
    /\ SumFirst(1) - sent.amount < FeeWith(1)
    /\ sent.fee = FeeWith(2)

(***************************************************************************)
(* C21                                                                     *)
(***************************************************************************)
\* The flag bits of a sighash word, read off the word itself.
AnyoneCanPay(w) == w[4] >= 128

BaseOf(w) == w[4] % 32

\* The fields of the FORKID preimage by their place: version(4) hashPrevouts(32)
\* hashSequence(32) outpoint(36) script(varint, bytes) amount(8) sequence(4)
\* hashOutputs(32) locktime(4) sighash(4).
PreimagePrevouts(p) == SubSeq(p, 5, 36)

PreimageSequence(p) == SubSeq(p, 37, 68)

PreimageOutputs(p) == SubSeq(p, Len(p) - 39, Len(p) - 8)

PreimageSigHash(p) == SubSeq(p, Len(p) - 3, Len(p))

\* C21: in the FORKID preimage hashPrevouts is 32 zero bytes exactly under
\* ANYONECANPAY; hashSequence is 32 zero bytes exactly under ANYONECANPAY or a
\* base of SINGLE or NONE; hashOutputs is the hash of output i alone under SINGLE
\* with i below the number of outputs, of all outputs when the base is neither
\* SINGLE nor NONE, and 32 zero bytes otherwise; the 32-bit sighash word comes last.
C21_ForkPreimage ==
    pb_res.op = "hash_fork" /\ pb_res.index < Len(pb_tx.inputs)
        => LET p == pb_res.preimage
               w == pb_res.sig_hash
               i == pb_res.index
           IN  /\ pb_res.result = HashOk(sha256(sha256(p)))
               /\ PreimagePrevouts(p) = Zeros(32) <=> AnyoneCanPay(w)
               /\ ~AnyoneCanPay(w)
                      => PreimagePrevouts(p) = sha256(sha256(FlatPrevouts(pb_tx.inputs)))
               /\ PreimageSequence(p) = Zeros(32)
                      <=> (AnyoneCanPay(w) \/ BaseOf(w) \in {2, 3})
               /\ ~(AnyoneCanPay(w) \/ BaseOf(w) \in {2, 3})
                      => PreimageSequence(p) = sha256(sha256(FlatSequences(pb_tx.inputs)))
               /\ PreimageOutputs(p) =
                      IF BaseOf(w) = 3 /\ i < Len(pb_tx.outputs)
                      THEN sha256(sha256(OutputBytes(pb_tx.outputs[i + 1])))
                      ELSE IF BaseOf(w) \notin {2, 3}
                      THEN sha256(sha256(FlatOutputs(pb_tx.outputs)))
                      ELSE Zeros(32)
               /\ PreimageSigHash(p) = <<w[4], w[3], w[2], w[1]>>

\* SINGLE with FORKID on the second input of a transaction with two outputs:
\* hashSequence is zero, hashPrevouts is not, hashOutputs covers the second output.
C21_Witness ==
    /\ pb_res.op = "hash_fork"
    /\ pb_res.sig_hash = <<1, 2, 3, 67>>
    /\ pb_res.index = 1
    /\ Len(pb_tx.inputs) = 2
    /\ Len(pb_tx.outputs) = 2
    /\ pb_tx.outputs[1] # pb_tx.outputs[2]
    /\ PreimageSequence(pb_res.preimage) = Zeros(32)
    /\ PreimagePrevouts(pb_res.preimage) # Zeros(32)
    /\ PreimageOutputs(pb_res.preimage) = sha256(sha256(OutputBytes(pb_tx.outputs[2])))

(***************************************************************************)
(* C22                                                                     *)
(***************************************************************************)
\* The script with every 0xAB byte left out, byte by byte.
RECURSIVE WithoutSeparators(_)
WithoutSeparators(script) ==
    IF script = <<>> THEN <<>>
    ELSE IF Head(script) = 171 THEN WithoutSeparators(Tail(script))
    ELSE <<Head(script)>> \o WithoutSeparators(Tail(script))

\* hash_original got past its bounds check and serialized a clone.
CloneMade == pb_res.op = "hash_original" /\ pb_res.result.st = "ok"

\* C22: hash_original leaves the transaction as it was; in the clone input i has
\* the script without its 0xAB bytes and every other input an empty script_sig,
\* under SINGLE or NONE every other input has sequence 0, under ANYONECANPAY the
\* inputs are exactly [input i], under NONE there are no outputs, and under
\* SINGLE there are i+1 outputs, the last the original output i and the ones
\* before it {amount: u64::MAX, script: empty}.
C22_LegacyClone ==
    CloneMade
        => LET c == pb_res.current_signing
               w == pb_res.sig_hash
               i == pb_res.index + 1
               acp == w[4] >= 128
               base == w[4] % 32
               own == IF acp THEN 1 ELSE i
           IN  /\ pb_tx = pb_res.self
               /\ Len(c.inputs) = IF acp THEN 1 ELSE Len(pb_tx.inputs)
               /\ c.inputs[own] = [pb_tx.inputs[i] EXCEPT
                                     !.script_sig = WithoutSeparators(pb_res.script)]
               /\ \A j \in 1..Len(c.inputs) :
                     j # own => /\ c.inputs[j].script_sig = <<>>
                                /\ c.inputs[j].tx_hash = pb_tx.inputs[j].tx_hash
                                /\ c.inputs[j].index = pb_tx.inputs[j].index
                                /\ base \in {2, 3} => c.inputs[j].sequence = <<0, 0, 0, 0>>
                                /\ base \notin {2, 3}
                                       => c.inputs[j].sequence = pb_tx.inputs[j].sequence
               /\ base = 2 => c.outputs = <<>>
               /\ base = 3 => /\ Len(c.outputs) = i
                              /\ c.outputs[i] = pb_tx.outputs[i]
                              /\ \A j \in 1..(i - 1) :
                                    c.outputs[j] = [amount |-> <<255, 255, 255, 255, 255, 255, 255, 255>>,
                                                    script |-> <<>>]
               /\ base \notin {2, 3} => c.outputs = pb_tx.outputs
               /\ c.version = pb_tx.version /\ c.locktime = pb_tx.locktime

\* SINGLE on the second input of a transaction with two inputs that carry a
\* script_sig and two outputs: the first input is blanked with sequence 0, the
\* first output is the placeholder.
C22_Witness ==
    /\ CloneMade
    /\ pb_res.sig_hash = <<0, 0, 0, 3>>
    /\ pb_res.index = 1
    /\ Len(pb_tx.inputs) = 2 /\ Len(pb_tx.outputs) = 2
    /\ pb_tx.inputs[1].script_sig # <<>>
    /\ pb_tx.inputs[1].sequence # <<0, 0, 0, 0>>
    /\ pb_res.current_signing.inputs[1].sequence = <<0, 0, 0, 0>>
    /\ Len(pb_res.script) > Len(pb_res.current_signing.inputs[2].script_sig)
    /\ pb_res.current_signing # pb_tx

\* ANYONECANPAY on the second of two inputs: the clone has that input alone.
C22_AnyoneCanPayWitness ==
    /\ CloneMade
    /\ pb_res.sig_hash = <<0, 0, 0, 129>>
    /\ pb_res.index = 1
    /\ Len(pb_tx.inputs) = 2
    /\ Len(pb_res.current_signing.inputs) = 1

(***************************************************************************)
(* C23                                                                     *)
(***************************************************************************)
\* C23: deserializing a byte string that ends before a complete transaction has
\* been read returns an error value to the caller and never aborts the program.
C23_TruncatedIsError ==
    pb_res.op = "try_from_truncated"
        => /\ pb_res.result.st # "panic"
           /\ pb_res.result.st # "ok"

\* What the code does instead: every such byte string ends in a panic.
C23_TruncatedPanics ==
    pb_res.op = "try_from_truncated" => pb_res.result.st = "panic"

\* The empty byte string, a serialization cut inside an input, and one whose
\* script length exceeds the bytes left have all been tried.
C23_EmptyWitness ==
    pb_res.op = "try_from_truncated" /\ pb_res.value = <<>>

C23_CutWitness ==
    /\ pb_res.op = "try_from_truncated"
    /\ Len(pb_res.value) = Len(pb_res.complete) - 1
    /\ Len(pb_tx.inputs) = 2 /\ Len(pb_tx.outputs) = 2

C23_LengthWitness ==
    /\ pb_res.op = "try_from_truncated"
    /\ Len(pb_res.value) = Len(pb_res.complete)
    /\ Len(pb_res.value) >= 42
    /\ pb_res.value[42] = 250 /\ pb_res.complete[42] < 250

(***************************************************************************)
(* C24                                                                     *)
(***************************************************************************)
\* The exit test of fetch_used_data was met by the state a chain scan returned.
ChainComplete(state) ==
    /\ state # FetchingState_default
    /\ state.last_index = 0 \/ state.last_index % BatchSize # 0

\* One step of a scan, seen from outside: a request is outstanding exactly while
\* pc is "request" (history) or "utxo_request" (unspent outputs).
RequestAfterOwnTake ==
    /\ (scan' # scan /\ scan'.pc = "request") => scan.pc = "take"
    /\ (scan' # scan /\ scan'.pc = "utxo_request") => scan.pc = "utxo_take"
    /\ (scan' # scan /\ scan.pc \in {"request", "utxo_request"})
           => scan'.pc \notin {"request", "utxo_request"}

MainBeforeChange ==
    /\ (scan.chain = "main" /\ scan'.chain = "change")
           => /\ scan.pc = "request"
              /\ ChainComplete(scan'.main)
              /\ scan'.last_index = 0
    /\ (scan.chain = "change" /\ scan'.chain = "main") => scan'.pc = "none"
    /\ (scan.chain = "change" /\ scan'.chain = "change") => scan'.main = scan.main

UtxoAfterBothChains ==
    (scan'.pc \in {"utxo_take", "utxo_request"})
        => /\ scan'.chain = "change"
           /\ ChainComplete(scan'.main)
           /\ ChainComplete(scan'.change)
           /\ scan.pc \in {"utxo_take", "utxo_request"}
                  \/ (scan.pc = "request" /\ scan.chain = "change")

\* C24: during fetch_for_address every oracle request follows its own completed
\* take() issued after the previous request, the main chain is scanned to
\* completion before the change chain starts, and the UTXO queries start only
\* after both chain scans have completed.
C24_ScanOrder ==
    [][RequestAfterOwnTake /\ MainBeforeChange /\ UtxoAfterBothChains]_vars

\* The second UTXO request of a scan is outstanding, both chain scans done.
C24_Witness ==
    /\ scan.pc = "utxo_request"
    /\ scan.pos >= BatchSize
    /\ scan.main.last_index > 0
    /\ scan.change.last_index > 0

(***************************************************************************)
(* C25                                                                     *)
(***************************************************************************)
\* The ways a build ends without a transaction to publish.
BuildFailures ==
    {"AddressNotPresent", "SmallValue", "CantSend", "InsufficientBalance",
     "InsufficientForFee", "InvalidChangeAddress", "UnableToSign"}

\* C25: publish is called only for a transaction on which sign_inputs returned
\* success, so every input of a published transaction carries a non-empty
\* script_sig; after an address, balance, fee, change-address or signing failure
\* publish is not called for that build.
C25_PublishOnlySigned ==
    /\ sent.published
           => /\ sent.outcome = "published"
              /\ verify(sent.transaction, OutputMap(send_props.outputs)) = "ok"
              /\ \A i \in 1..Len(sent.transaction.inputs) :
                    sent.transaction.inputs[i].script_sig # <<>>
    /\ sent.outcome \in BuildFailures => ~sent.published

\* A transaction with two inputs has been published.
C25_Witness ==
    /\ sent.published
    /\ Len(sent.transaction.inputs) = 2
    /\ Len(sent.transaction.outputs) = 2

\* A build has ended at sign_inputs for want of a key, one input signed.
C25_SignFailureWitness ==
    /\ sent.outcome = "UnableToSign"
    /\ \E i \in 1..Len(sent.transaction.inputs) : sent.transaction.inputs[i].script_sig = <<>>

(***************************************************************************)
(* C26                                                                     *)
(***************************************************************************)
\* A scan task exists and has not ended.
InFlight(sc) == sc.pc \in {"take", "request", "utxo_take", "utxo_request"}

\* The step spawns a scan task: the task stands at its first take() with nothing
\* fetched yet.
StartsScan == scan' # scan /\ scan' = [NoScan EXCEPT !.pc = "take"]

\* C26: at most one wallet scan is in flight at any time: a tick while the syncing
\* flag is true starts no scan, and the published WalletState changes only when a
\* scan completes successfully, when it is replaced as a whole by that scan's result.
C26_OneScan ==
    [][ /\ StartsScan => (~syncing /\ ~InFlight(scan) /\ scan.pc = "none")
        /\ syncing => ~StartsScan
        /\ InFlight(scan') => syncing'
        /\ wallet' # wallet
               => /\ scan.pc = "utxo_request"
                  /\ scan'.pc = "none"
                  /\ scan.pos + BatchSize >= Len(scan.active)
                  /\ wallet'.main = scan.main
                  /\ wallet'.change = scan.change
                  /\ wallet'.balance >= scan.balance
                  /\ Len(wallet'.unspent_outputs) >= Len(scan.unspent_outputs)
                  /\ wallet'.balance = SumAmounts(wallet'.unspent_outputs)
      ]_vars

\* A scan is in flight with an earlier scan's result published and the flag set.
C26_Witness ==
    /\ syncing
    /\ scan.pc = "request"
    /\ wallet # WalletState_default
    /\ wallet.balance > 0

(***************************************************************************)
(* C27                                                                     *)
(***************************************************************************)
\* The scan has ended on an oracle error: fetch_for_address returned Err.
FailedScan == scan.pc = "panicked" /\ scan.panic = "unwrap on Err"

\* C27: whenever a scan started by trigger_sync ends, in success or on an oracle
\* error, the syncing flag eventually returns to false, so that a later tick can
\* start a new scan.
C27_FlagReturns ==
    /\ FailedScan ~> (syncing = FALSE)
    /\ [][(scan.pc = "utxo_request" /\ scan'.pc = "none") => ~syncing']_vars

\* What the code does: after a failed scan the flag stays set for good and no
\* scan is started again.
C27_FailedScanSticks ==
    [][FailedScan => (syncing' /\ scan' = scan)]_vars

\* A scan has failed on an oracle error with the flag still set.
C27_FailedWitness == FailedScan /\ syncing

(***************************************************************************)
(* C28                                                                     *)
(***************************************************************************)
\* The public key bytes an input's script_sig ends with.
EmbeddedKey(script_sig) == SubSeq(script_sig, script_sig[1] + 3, Len(script_sig))

\* The 20 bytes a P2PKH locking script pushes.
LockedHash(script) == SubSeq(script, 4, 23)

\* C28: verify succeeds for an input only if the public key embedded in its
\* script_sig hashes (RIPEMD160 of SHA256) to the 20-byte hash in the previous
\* output's P2PKH script; a signature valid under another key does not pass.
C28_VerifyBindsKey ==
    (pb_res.op = "verify" /\ pb_res.result = "ok")
        => \A i \in 1..Len(pb_tx.inputs) :
              ripemd160(sha256(EmbeddedKey(pb_tx.inputs[i].script_sig)))
                  = LockedHash(pb_res.previous_outputs[Outpoint(pb_tx.inputs[i])].script)

\* What verify does check: the signature of each input is valid under the key
\* the script_sig itself carries.
C28_VerifyChecksSignatureOnly ==
    (pb_res.op = "verify" /\ pb_res.result = "ok")
        => \A i \in 1..Len(pb_tx.inputs) :
              LET ss == pb_tx.inputs[i].script_sig
                  out == pb_res.previous_outputs[Outpoint(pb_tx.inputs[i])]
              IN  \E k \in Keys :
                     /\ EmbeddedKey(ss) = PublicKeyBytes(k)
                     /\ SubSeq(ss, 2, ss[1])
                            = SignDer(k, hash_fork(pb_tx, i - 1, out.script,
                                                   U32FromNat(ss[ss[1] + 1]), out.amount).hash)

\* verify has accepted an input signed with a key other than the one its
\* previous output is locked to.
C28_ForeignKeyAccepted ==
    /\ pb_res.op = "verify" /\ pb_res.result = "ok"
    /\ Len(pb_tx.inputs) > 0
    /\ EmbeddedKey(pb_tx.inputs[1].script_sig) = PublicKeyBytes(2)
    /\ LockedHash(pb_res.previous_outputs[Outpoint(pb_tx.inputs[1])].script) = KeyHash(1)

(***************************************************************************)
(* C29                                                                     *)
(***************************************************************************)
\* The decoded string has the length and the version of a private extended key.
PrivateShape(decoded) ==
    Len(decoded) = 82 /\ SubSeq(decoded, 1, 4) = <<4, 136, 173, 228>>

\* The last four bytes are the first four of the double SHA-256 of the first 78.
ChecksumMatches(decoded) ==
    /\ Len(decoded) >= 82
    /\ SubSeq(decoded, Len(decoded) - 3, Len(decoded))
           = SubSeq(sha256(sha256(SubSeq(decoded, 1, 78))), 1, 4)

\* C29: XPrv::from_str returns an error, never a key and never an abort, for
\* every Base58 string whose decoded form is not exactly 82 bytes or does not
\* start with the private version 0x0488ADE4; it returns the checksum-mismatch
\* error when the last 4 bytes differ from the double SHA-256 of the first 78;
\* so load_xprv only ever publishes a key parsed from a well-formed private
\* extended key string.
C29_OnlyPrivateKeysParse ==
    (kc_result.op = "load_xprv" /\ kc_result.text.b58)
        => LET decoded == kc_result.text.bytes IN
           /\ ~PrivateShape(decoded) => kc_result.parsed.st \notin {"ok", "panic"}
           /\ (PrivateShape(decoded) /\ ~ChecksumMatches(decoded))
                  => kc_result.parsed.st = "Checksum mismatch"
           /\ kc_result.xprv_state # <<>>
                  => (PrivateShape(decoded) /\ ChecksumMatches(decoded))

\* The part the code keeps: a string of 78 bytes or more whose bytes after the
\* 78th are not the checksum of the first 78 is refused with "Checksum mismatch",
\* and a well-formed private key string is parsed.
C29_ChecksumGuard ==
    (kc_result.op = "load_xprv" /\ kc_result.text.b58)
        => LET decoded == kc_result.text.bytes IN
           /\ (Len(decoded) >= 78 /\ ~(Len(decoded) = 82 /\ ChecksumMatches(decoded)))
                  => kc_result.parsed.st = "Checksum mismatch"
           /\ (PrivateShape(decoded) /\ ChecksumMatches(decoded))
                  => kc_result.parsed.st = "ok"
           /\ Len(decoded) < 78 => kc_result.parsed.st = "panic"

\* The serialization of an extended public key has been loaded as the wallet's
\* private key.
C29_PublicKeyLoaded ==
    /\ kc_result.op = "load_xprv"
    /\ kc_subject.kind = "xpub"
    /\ kc_result.xprv_state # <<>>

\* A Base58 string that decodes to fewer than 78 bytes has ended the parse in a panic.
C29_ShortTextPanics ==
    /\ kc_result.op = "load_xprv"
    /\ kc_result.text.b58
    /\ Len(kc_result.text.bytes) < 78
    /\ kc_result.parsed.st = "panic"

(***************************************************************************)
(* C30                                                                     *)
(***************************************************************************)
\* The length of the open window so far, in ms, and floor(T * C) for it.
WindowLength == now - rl_last.start

RefillsIn(ms, capacity) == (ms * capacity) \div 1000

\* C30: for a RateLimiter of capacity C, in any time window of length T seconds
\* at most C + floor(T * C) calls of take() complete, under every schedule of
\* callers, one that leaves the limiter idle, drains it and keeps calling included.
C30_WindowBound ==
    rl_last.start >= 0
        => rl_last.count <= rl.capacity + RefillsIn(WindowLength, rl.capacity)

\* What holds over the schedules of the model: a bucket drained after an idle
\* time refills whole at the next poll, so a second burst of C follows the first.
C30_DoubleBurstBound ==
    rl_last.start >= 0
        => rl_last.count <= 2 * rl.capacity + RefillsIn(WindowLength, rl.capacity)

\* Six takes of a limiter of capacity 3 have completed within one polling interval.
C30_DoubleBurst ==
    /\ rl.capacity = 3
    /\ rl_last.start >= SECOND_MS
    /\ WindowLength = POLL_MS
    /\ rl_last.count = 6

====
